---- MODULE Spec2Model ----
(***************************************************************************)
(* Verification model of the APOD pipeline.                                *)
(*                                                                         *)
(*   SpecMaster : scripts/process_apod.py, create_master_dataset run any   *)
(*                number of times over one date range, with failing dates  *)
(*                and KeyboardInterrupt at every point of its loop.        *)
(*   SpecClip   : python/src/data_processing/                              *)
(*                generate_clip_categorized_data.py, one run of            *)
(*                generate_clip_categorized_data over a master table.      *)
(*   SpecFetch  : scripts/process_apod.py, fetch_apod_data called for      *)
(*                several dates in a row on one RateLimiter, over every    *)
(*                sequence of responses, request durations and jitters.    *)
(*   SpecMetrics: src/utils/metrics.py, one call of                        *)
(*                calculate_top_n_accuracy, calculate_mrr or               *)
(*                calculate_precision_at_k on arbitrary arguments.         *)
(*   SpecPaths  : the local image path of one master-table row, as         *)
(*                scripts/download_all_images.py, check_image_path and     *)
(*                scripts/create_embedding_indices_debug.py derive it.     *)
(*   SpecClassify: python/src/ml_models/fastclassifier.py, one call of     *)
(*                FastClassifier.classify_batch, and the ranking of        *)
(*                process_batch, over arbitrary scores.                    *)
(***************************************************************************)
EXTENDS Integers, Sequences, FiniteSets, TLC

(***************************************************************************)
(* Bounds of the model.                                                    *)
(***************************************************************************)
\* number of calendar dates in daterange(START_DATE, END_DATE)
NDates == 3
\* number of consecutive runs of create_master_dataset
MaxRuns == 2
\* number of rows of the master table read by generate_clip_categorized_data
NRows == 5
\* number of dates fetched in a row on one RateLimiter
NFetchDates == 3
\* largest number of items handed to a metric
MaxItems == 2
\* largest length of the ranked list of one item
MaxRanked == 2
\* largest number of texts handed to the classifier, and largest batch_size
MaxTexts == 2
\* largest number of characters of the hdurl of a master-table row
MaxUrlLen == 3

(***************************************************************************)
(* Program constants (scaled down so that several batches happen).         *)
(***************************************************************************)
\* process_apod.py BATCH_SIZE (50 in the source)
BATCH_SIZE == 2
\* generate_clip_categorized_data.py BATCH_SIZE (16 in the source)
CLIP_BATCH_SIZE == 2

\* generate_clip_categorized_data.py NUM_WORKERS (4 in the source)
NUM_WORKERS == 2
\* generate_clip_categorized_data.py SAVE_EMBEDDINGS_EVERY (100 in the source)
SAVE_EMBEDDINGS_EVERY == 2

\* Times are counted in tenths of a second, so that the 10 % jitter of
\* wait_before_request is a whole number.
\* process_apod.py BASE_DELAY (1.0 s)
BASE_DELAY == 10
\* process_apod.py MAX_DELAY (300 s)
MAX_DELAY == 3000
\* process_apod.py RETRY_ATTEMPTS
RETRY_ATTEMPTS == 5
\* process_apod.py line 90: session.get(api_url, timeout=30)
REQUEST_TIMEOUT == 300

VARIABLES
    \* ---- scripts/process_apod.py ----
    file,              \* OUTPUT_CSV_PATH on disk: [exists, lines]
    api,               \* what the API answered for each date fetched in this run
    pc,                \* position inside create_master_dataset
    existing_dates,    \* local of create_master_dataset
    dates_to_process,  \* local of create_master_dataset
    di,                \* position of the for loop in dates_to_process
    batch_data,        \* local of create_master_dataset
    processed_count,   \* local of create_master_dataset
    failed_dates,      \* local of create_master_dataset
    runs,              \* number of runs started
    \* history of the current run and of the file, read only by the properties
    fileAtStart,       \* the file when the run started
    fetched,           \* dates for which fetch_apod_data was called, in order
    written,           \* rows handed to writerows by this run, in order
    buffered,          \* rows appended to batch_data by this run
    interrupted,       \* KeyboardInterrupt reached the except clause
    prevApi,           \* api of the previous run
    prevClean,         \* the previous run ended without interruption
    hdrWrites,         \* number of writeheader calls since the beginning
    truncated,         \* some write removed data rows that were in the file
    \* ---- generate_clip_categorized_data.py ----
    master,            \* the master table: what each row is, by index
    phase,             \* position inside generate_clip_categorized_data
    df_valid,          \* indices of the validated rows, in order
    image_paths,       \* keys of the image_paths dictionary
    bi,                \* the loop variable i of the batch loop
    results,           \* local of generate_clip_categorized_data
    all_top_k_predictions,   \* local of generate_clip_categorized_data
    current_embedding_batch, \* local of generate_clip_categorized_data
    batch_counter,     \* local of generate_clip_categorized_data
    batch_files,       \* EMBEDDINGS_DIR: the *_batch_<n>.npy files
    final_files,       \* EMBEDDINGS_DIR: the consolidated .npy files
    output,            \* OUTPUT_CSV_PATH of the categorization: its data rows
    ground_truth_df,   \* ground_truth_csv as lines 448-450 find it
    merged_df,         \* local of generate_clip_categorized_data
    predictions_for_metrics, \* local of generate_clip_categorized_data
    semantic_metrics,  \* data/semantic_metrics_clip.csv
    error,             \* the exception that ended the run
    warnings,          \* what consolidate_embedding_batches reported
    last_batch,        \* the last call of process_batch: argument and result
    \* ---- scripts/process_apod.py: RateLimiter and fetch_apod_data ----
    consecutive_429s,  \* field of the RateLimiter
    elapsed,           \* time.time() - last_request_time, capped at ElapsedCap
    fpc,               \* position inside fetch_apod_data
    api_date,          \* number of the date being fetched (0 before the first)
    attempt,           \* the loop variable of fetch_apod_data
    fetch_result,      \* what fetch_apod_data returned
    entry_429s,        \* consecutive_429s when fetch_apod_data was called
    \* history of the current call and of the calls so far
    requests,          \* number of session.get calls of this call
    status,            \* how the last request of this call ended
    n429,              \* number of 429 responses of this call
    slept,             \* time slept since the last request was issued
    waits,             \* time slept before each retry of the current run of 429s
    reported,          \* (cause, returned value) of the calls that returned
    \* ---- src/utils/metrics.py ----
    arg_predictions,   \* the argument predictions: one ranked list per item
    arg_ground_truth,  \* the argument ground_truth: one label per item
    arg_n,             \* the argument n of top-N accuracy, k of precision@k
    metric_called,     \* the function that was called
    metric_result,     \* what it returned or raised
    caller,            \* who calls the metric: a pipeline, or other code
    \* ---- python/src/ml_models/fastclassifier.py ----
    method,            \* self.method, or "clip" for the ranking of process_batch
    texts,             \* the argument texts
    candidate_labels,  \* the argument candidate_labels
    batch_size,        \* the argument batch_size
    cpc,               \* position inside classify_batch
    offset,            \* number of texts the loop has gone past
    similarities,      \* the scores of the labels, one row per text so far
    batch_results,     \* what the pipeline has ranked of the current batch
    classify_results,  \* the local results
    classify_returned, \* classify_batch has returned results
    single_results,    \* number of batches the pipeline answered with one dict
    \* ---- generate_clip_categorized_data.py: preload_valid_images ----
    ppc,               \* position inside preload_valid_images
    next_task,         \* the next task of the executor's work queue
    executor,          \* the task each worker thread is running (0: idle)
    futures,           \* the state of the future of each task
    check_results,     \* the local results, as list() has built it so far
    valid_indices,     \* local of preload_valid_images
    paths_by_index,    \* the local image_paths, in insertion order
    completion_order,  \* the tasks in the order their threads finished
    \* ---- the local image path in the three scripts that derive it ----
    path_row,          \* the master-table row: [date, hdurl, url]
    image_dir,         \* the files of IMAGE_DIR
    downloaded,        \* what download_all_images did with the row
    preloaded,         \* what check_image_path did with the row
    indexed            \* what create_embedding_indices did with the row

masterVars == <<file, api, pc, existing_dates, dates_to_process, di, batch_data,
                processed_count, failed_dates, runs, fileAtStart, fetched,
                written, buffered, interrupted, prevApi, prevClean, hdrWrites,
                truncated>>

clipVars == <<master, phase, df_valid, image_paths, bi, results,
              all_top_k_predictions, current_embedding_batch, batch_counter,
              batch_files, final_files, output, ground_truth_df, merged_df,
              predictions_for_metrics, semantic_metrics, error, warnings,
              last_batch>>

\* the locals and the file of the evaluation
evalVars == <<ground_truth_df, merged_df, predictions_for_metrics,
              semantic_metrics>>

fetchVars == <<consecutive_429s, elapsed, fpc, api_date, attempt, fetch_result,
               entry_429s, requests, status, n429, slept, waits, reported>>

metricVars == <<arg_predictions, arg_ground_truth, arg_n, metric_called,
                metric_result, caller>>

classifyVars == <<method, texts, candidate_labels, batch_size, cpc, offset,
                  similarities, batch_results, classify_results, classify_returned,
                  single_results>>

preloadVars == <<ppc, next_task, executor, futures, check_results,
                 valid_indices, paths_by_index, completion_order>>

pathVars == <<path_row, image_dir, downloaded, preloaded, indexed>>

vars == <<masterVars, clipVars, fetchVars, metricVars, classifyVars,
          preloadVars, pathVars>>

\* what the actions of one program leave alone
outsideMaster ==
    <<clipVars, fetchVars, metricVars, classifyVars, preloadVars, pathVars>>

outsideClip ==
    <<masterVars, fetchVars, metricVars, classifyVars, preloadVars, pathVars>>

outsideFetch ==
    <<masterVars, clipVars, metricVars, classifyVars, preloadVars, pathVars>>

outsideMetrics ==
    <<masterVars, clipVars, fetchVars, classifyVars, preloadVars, pathVars>>

outsideClassify ==
    <<masterVars, clipVars, fetchVars, metricVars, preloadVars, pathVars>>

\* the table preload_valid_images works on is the master table of the run
outsidePreload ==
    <<masterVars, clipVars, fetchVars, metricVars, classifyVars, pathVars>>

outsidePaths ==
    <<masterVars, clipVars, fetchVars, metricVars, classifyVars, preloadVars>>

(***************************************************************************)
(* Helpers on sequences.                                                   *)
(***************************************************************************)
Range(s) == {s[k] : k \in 1..Len(s)}

Count(s, x) == Cardinality({k \in 1..Len(s) : s[k] = x})

Prefix(s, n) == SubSeq(s, 1, n)

(***************************************************************************)
(* scripts/process_apod.py                                                 *)
(***************************************************************************)
Dates == 1..NDates

Outcomes == {"ok", "notfound", "exhausted"}

\* the header line and a data line of the CSV file
Header == [kind |-> "header", date |-> 0]

Row(d) == [kind |-> "row", date |-> d]

NoFile == [exists |-> FALSE, lines |-> <<>>]

\* the data lines of a file: everything but the header line
DataRows(f) == SelectSeq(f.lines, LAMBDA l : l.kind = "row")

DatesInFile(f) == {l.date : l \in Range(DataRows(f))}

\* csv.DictReader takes the first line as the field names: the rows have a
\* 'date' key only when that line is the header
get_existing_dates(f) ==
    IF ~f.exists \/ f.lines = <<>> THEN {}
    ELSE IF Head(f.lines) = Header
         THEN {l.date : l \in Range(Tail(f.lines))}
         ELSE {}

\* daterange(START_DATE, END_DATE) filtered by existing_dates, in date order
RECURSIVE DatesFrom(_, _)
DatesFrom(d, existing) ==
    IF d > NDates THEN <<>>
    ELSE (IF d \in existing THEN <<>> ELSE <<d>>) \o DatesFrom(d + 1, existing)

\* fetch_apod_data: the parsed record on 200, None on 404 and after the
\* last attempt
None == [kind |-> "none", date |-> 0]

fetch_apod_data(d, a) == IF a[d] = "ok" THEN Row(d) ELSE None

\* write_batch_to_csv opening the file in mode 'w' whatever write_header is
write_batch_always_truncating(batch, f, write_header) ==
    [exists |-> TRUE,
     lines |-> (IF write_header THEN <<Header>> ELSE <<>>) \o batch]

\* write_batch_to_csv: mode 'w' and writeheader when write_header, else 'a'
write_batch_to_csv(batch, f, write_header) ==
    IF write_header
    THEN [exists |-> TRUE, lines |-> <<Header>> \o batch]
    ELSE [exists |-> TRUE, lines |-> f.lines \o batch]

\* a write cut short by KeyboardInterrupt: the file is opened (and truncated
\* in mode 'w'), then hdr says whether writeheader ran and k how many rows
\* of the batch reached the file before the with block closed it
partial_write(batch, f, write_header, hdr, k) ==
    IF write_header
    THEN [exists |-> TRUE,
          lines |-> (IF hdr THEN <<Header>> ELSE <<>>) \o Prefix(batch, k)]
    ELSE [exists |-> TRUE, lines |-> f.lines \o Prefix(batch, k)]

\* line 194: write_header of the periodic write
PeriodicHeader == existing_dates = {} /\ processed_count <= BATCH_SIZE

\* line 200: write_header of the final write
FinalHeader == existing_dates = {} /\ processed_count <= Len(batch_data)

\* an except clause that reports the interruption and saves nothing
interrupt_handler_without_save(batch, f) == f

\* lines 203-207: the except KeyboardInterrupt clause
interrupt_handler(batch, f) ==
    IF batch # <<>> THEN write_batch_to_csv(batch, f, FALSE) ELSE f

\* where the loop goes after the body of one iteration
AfterBody(i) == IF i > Len(dates_to_process) THEN "final" ELSE "fetch"

InitMaster ==
    /\ file = NoFile
    /\ api = [d \in Dates |-> "unknown"]
    /\ pc = "idle"
    /\ existing_dates = {}
    /\ dates_to_process = <<>>
    /\ di = 1
    /\ batch_data = <<>>
    /\ processed_count = 0
    /\ failed_dates = <<>>
    /\ runs = 0
    /\ fileAtStart = NoFile
    /\ fetched = <<>>
    /\ written = <<>>
    /\ buffered = <<>>
    /\ interrupted = FALSE
    /\ prevApi = [d \in Dates |-> "unknown"]
    /\ prevClean = FALSE
    /\ hdrWrites = 0
    /\ truncated = FALSE

\* lines 141-174: start of create_master_dataset
StartRun ==
    /\ UNCHANGED outsideMaster
    /\ pc \in {"idle", "done"}
    /\ runs < MaxRuns
    /\ runs' = runs + 1
    /\ api' = [d \in Dates |-> "unknown"]
    /\ prevApi' = api
    /\ prevClean' = (pc = "done" /\ ~interrupted)
    /\ existing_dates' = get_existing_dates(file)
    /\ dates_to_process' = DatesFrom(1, get_existing_dates(file))
    /\ pc' = IF DatesFrom(1, get_existing_dates(file)) = <<>> THEN "done" ELSE "fetch"
    /\ di' = 1
    /\ batch_data' = <<>>
    /\ processed_count' = 0
    /\ failed_dates' = <<>>
    /\ fileAtStart' = file
    /\ fetched' = <<>>
    /\ written' = <<>>
    /\ buffered' = <<>>
    /\ interrupted' = FALSE
    /\ UNCHANGED <<file, hdrWrites, truncated>>

\* lines 177-193: one iteration up to the test of the periodic write
FetchDate ==
    /\ UNCHANGED outsideMaster
    /\ pc = "fetch"
    /\ di <= Len(dates_to_process)
    /\ \E o \in Outcomes :
       LET d == dates_to_process[di]
           answered == [api EXCEPT ![d] = o]
           data == fetch_apod_data(d, answered)
           batch == IF data # None THEN Append(batch_data, data) ELSE batch_data
       IN /\ api' = answered
          /\ fetched' = Append(fetched, d)
          /\ batch_data' = batch
          /\ buffered' = IF data # None THEN Append(buffered, data) ELSE buffered
          /\ failed_dates' = IF data # None THEN failed_dates ELSE Append(failed_dates, d)
          /\ processed_count' = processed_count + 1
          /\ di' = di + 1
          /\ pc' = IF Len(batch) >= BATCH_SIZE THEN "flush" ELSE AfterBody(di + 1)
    /\ UNCHANGED <<file, existing_dates, dates_to_process, runs, fileAtStart,
                   written, interrupted, prevApi, prevClean, hdrWrites, truncated>>

\* line 194: the periodic write
PeriodicWrite ==
    /\ UNCHANGED outsideMaster
    /\ pc = "flush"
    /\ file' = write_batch_to_csv(batch_data, file, PeriodicHeader)
    /\ written' = written \o batch_data
    /\ hdrWrites' = IF PeriodicHeader THEN hdrWrites + 1 ELSE hdrWrites
    /\ truncated' = (truncated \/ (PeriodicHeader /\ DataRows(file) # <<>>))
    /\ pc' = "written"
    /\ UNCHANGED <<api, existing_dates, dates_to_process, di, batch_data,
                   processed_count, failed_dates, runs, fileAtStart, fetched,
                   buffered, interrupted, prevApi, prevClean>>

\* line 196: batch_data = []
ClearBatch ==
    /\ UNCHANGED outsideMaster
    /\ pc = "written"
    /\ batch_data' = <<>>
    /\ pc' = AfterBody(di)
    /\ UNCHANGED <<file, api, existing_dates, dates_to_process, di,
                   processed_count, failed_dates, runs, fileAtStart, fetched,
                   written, buffered, interrupted, prevApi, prevClean, hdrWrites,
                   truncated>>

\* lines 199-201: the write of the remaining data, then the normal exit
FinalWrite ==
    /\ UNCHANGED outsideMaster
    /\ pc = "final"
    /\ IF batch_data # <<>>
       THEN /\ file' = write_batch_to_csv(batch_data, file, FinalHeader)
            /\ written' = written \o batch_data
            /\ hdrWrites' = IF FinalHeader THEN hdrWrites + 1 ELSE hdrWrites
            /\ truncated' = (truncated \/ (FinalHeader /\ DataRows(file) # <<>>))
       ELSE UNCHANGED <<file, written, hdrWrites, truncated>>
    /\ pc' = "done"
    /\ UNCHANGED <<api, existing_dates, dates_to_process, di, batch_data,
                   processed_count, failed_dates, runs, fileAtStart, fetched,
                   buffered, interrupted, prevApi, prevClean>>

\* lines 203-207: KeyboardInterrupt between two statements of the try block
Interrupt ==
    /\ UNCHANGED outsideMaster
    /\ pc \in {"fetch", "flush", "written", "final"}
    /\ file' = interrupt_handler(batch_data, file)
    /\ written' = written \o batch_data
    /\ interrupted' = TRUE
    /\ pc' = "done"
    /\ UNCHANGED <<api, existing_dates, dates_to_process, di, batch_data,
                   processed_count, failed_dates, runs, fileAtStart, fetched,
                   buffered, prevApi, prevClean, hdrWrites, truncated>>

\* lines 194/200 then 203-207: KeyboardInterrupt inside write_batch_to_csv
InterruptInWrite ==
    /\ UNCHANGED outsideMaster
    /\ pc \in {"flush", "final"}
    /\ batch_data # <<>>
    /\ LET wh == IF pc = "flush" THEN PeriodicHeader ELSE FinalHeader
       IN \E hdr \in BOOLEAN, k \in 0..Len(batch_data) :
            /\ (~hdr => k = 0)
            /\ (~wh => hdr)
            /\ file' = interrupt_handler(batch_data,
                          partial_write(batch_data, file, wh, hdr, k))
            /\ written' = written \o Prefix(batch_data, k) \o batch_data
            /\ hdrWrites' = IF wh /\ hdr THEN hdrWrites + 1 ELSE hdrWrites
            /\ truncated' = (truncated \/ (wh /\ DataRows(file) # <<>>))
    /\ interrupted' = TRUE
    /\ pc' = "done"
    /\ UNCHANGED <<api, existing_dates, dates_to_process, di, batch_data,
                   processed_count, failed_dates, runs, fileAtStart, fetched,
                   buffered, prevApi, prevClean>>

NextMaster ==
    \/ StartRun
    \/ FetchDate
    \/ PeriodicWrite
    \/ ClearBatch
    \/ FinalWrite
    \/ Interrupt
    \/ InterruptInWrite

(***************************************************************************)
(* python/src/data_processing/generate_clip_categorized_data.py            *)
(***************************************************************************)
\* The pandas index of a master row is its position; its date is unique, so
\* the index stands for the date as well.
Rows == 1..NRows

\* What a master row is: not an image entry (media_type is not 'image', or
\* the url is null), an image whose local file is missing, an image whose
\* file does not decode, an image that loads.
RowKinds == {"video", "missing", "corrupt", "good"}

MasterTables == [Rows -> RowKinds]

APOD_LABELS == <<"Galaxy", "Nebula", "Planet">>

SKIPPED == "Skipped_Image_Not_Found"

embedding_types == <<"title_embeddings", "text_image_embeddings",
                     "image_embeddings", "multimodal_embeddings">>

EmbTypes == Range(embedding_types)

CkptNums == 0..NRows

BatchFileNames == (EmbTypes \cup {"indices"}) \X CkptNums

FinalFileNames == EmbTypes \cup {"embedding_indices"}

NoNpy == [exists |-> FALSE, rows |-> <<>>]

Npy(rows) == [exists |-> TRUE, rows |-> rows]

\* lines 313-314: media_type == 'image' and url not null
IsImageEntry(k) == k # "video"

df_images(m) == SelectSeq([i \in Rows |-> i], LAMBDA i : IsImageEntry(m[i]))

\* lines 81-94: os.path.exists(local_image_path)
check_image_path(k) == k \in {"corrupt", "good"}

\* a loader that hands over whatever the file holds
load_without_decoding(k) == TRUE

\* lines 65-75: an image, or None when Image.open raises
load_and_preprocess_image(k) == k = "good"

\* lines 77-114: valid_indices, in the order of df_images (executor.map
\* returns the results in the order of its input)
preload_valid_images(m) ==
    SelectSeq(df_images(m), LAMBDA i : check_image_path(m[i]))

\* the embedding of one kind of one item, and what the model ranks for it
Emb(t, idx) == [type |-> t, item |-> idx]

Ranking(idx) ==
    [k \in 1..Len(APOD_LABELS) |->
        APOD_LABELS[((k - 1 + idx) % Len(APOD_LABELS)) + 1]]

\* the top softmax score of an item, in percent
TopScore(idx) == 40 + idx

\* lines 39-63: EmbeddingBatch
EmptyBatch ==
    [title_embeddings |-> <<>>, text_image_embeddings |-> <<>>,
     image_embeddings |-> <<>>, multimodal_embeddings |-> <<>>,
     indices |-> <<>>]

Add(b, title_emb, text_emb, image_emb, multimodal_emb, idx) ==
    [title_embeddings |-> Append(b.title_embeddings, title_emb),
     text_image_embeddings |-> Append(b.text_image_embeddings, text_emb),
     image_embeddings |-> Append(b.image_embeddings, image_emb),
     multimodal_embeddings |-> Append(b.multimodal_embeddings, multimodal_emb),
     indices |-> Append(b.indices, idx)]

BatchLen(b) == Len(b.indices)

\* a clear that leaves the lists as they are
clear_nothing(b) == b

\* lines 55-60: EmbeddingBatch.clear
clear(b) == EmptyBatch

\* lines 265-285: the embeddings of the kept items of a batch
RECURSIVE EmbedAll(_, _)
EmbedAll(kept, k) ==
    IF k = 0 THEN EmptyBatch
    ELSE Add(EmbedAll(kept, k - 1),
             Emb("title_embeddings", kept[k]),
             Emb("text_image_embeddings", kept[k]),
             Emb("image_embeddings", kept[k]),
             Emb("multimodal_embeddings", kept[k]),
             kept[k])

\* a process_batch whose except clause returns what the try block computed
process_batch_keeping_on_raise(m, batch, raises) ==
    LET kept == SelectSeq(batch, LAMBDA i : load_and_preprocess_image(m[i]))
    IN [results |->
           [k \in 1..Len(kept) |->
               [index |-> kept[k],
                predicted_category |-> Ranking(kept[k])[1],
                confidence_score |-> TopScore(kept[k])]],
        embedding_batch |-> EmbedAll(kept, Len(kept)),
        top_k |-> [k \in 1..Len(kept) |-> Ranking(kept[k])]]

\* lines 179-291: process_batch; raises says that a model call raised
process_batch(m, batch, raises) ==
    LET kept == SelectSeq(batch, LAMBDA i : load_and_preprocess_image(m[i]))
    IN IF kept = <<>> \/ raises
       THEN [results |-> <<>>, embedding_batch |-> EmptyBatch, top_k |-> <<>>]
       ELSE [results |->
                [k \in 1..Len(kept) |->
                    [index |-> kept[k],
                     predicted_category |-> Ranking(kept[k])[1],
                     confidence_score |-> TopScore(kept[k])]],
             embedding_batch |-> EmbedAll(kept, Len(kept)),
             top_k |-> [k \in 1..Len(kept) |-> Ranking(kept[k])]]

\* lines 347-353: a row of the results list
ResultRow(r) ==
    [date |-> r.index, predicted_category |-> r.predicted_category,
     confidence_score |-> r.confidence_score]

\* lines 356-363: the embeddings of a batch added to the current batch
RECURSIVE Extend(_, _, _)
Extend(b, eb, j) ==
    IF j = 0 THEN b
    ELSE Add(Extend(b, eb, j - 1),
             eb.title_embeddings[j], eb.text_image_embeddings[j],
             eb.image_embeddings[j], eb.multimodal_embeddings[j],
             eb.indices[j])

\* a save that writes no file
save_nothing(eb, batch_num, files) == files

\* lines 116-134: save_embeddings_batch
save_embeddings_batch(eb, batch_num, files) ==
    IF BatchLen(eb) = 0 THEN files
    ELSE [f \in BatchFileNames |->
            IF f[2] = batch_num THEN Npy(eb[f[1]]) ELSE files[f]]

\* lines 146-156: what the inner loop of the consolidation loads for one
\* embedding type: the rows of `what` of every batch whose embedding file and
\* indices file both exist, in the order of range(total_batches)
RECURSIVE LoadBatchesFrom(_, _, _, _, _)
LoadBatchesFrom(files, emb_type, what, batch_num, total_batches) ==
    IF batch_num >= total_batches THEN <<>>
    ELSE (IF files[<<emb_type, batch_num>>].exists
             /\ files[<<"indices", batch_num>>].exists
          THEN files[<<what, batch_num>>].rows
          ELSE <<>>)
         \o LoadBatchesFrom(files, emb_type, what, batch_num + 1, total_batches)

\* the inner loop starting at batch 1 instead of batch 0
LoadBatchesSkippingFirst(files, emb_type, what, total_batches) ==
    LoadBatchesFrom(files, emb_type, what, 1, total_batches)

LoadBatches(files, emb_type, what, total_batches) ==
    LoadBatchesFrom(files, emb_type, what, 0, total_batches)

\* a clean-up that removes the batch files of one kind whatever their number
RemoveBatchesOfAnyNumber(files, kind, total_batches) ==
    [f \in BatchFileNames |-> IF f[1] = kind THEN NoNpy ELSE files[f]]

\* lines 164-167 and 174-177: os.remove of the batch files of one kind
RemoveBatches(files, kind, total_batches) ==
    [f \in BatchFileNames |->
        IF f[1] = kind /\ f[2] < total_batches THEN NoNpy ELSE files[f]]

\* lines 142-167: one iteration of the loop over embedding_types; st holds the
\* batch files, the final files and the local all_indices
ConsolidateType(st, emb_type, total_batches) ==
    LET all_embeddings == LoadBatches(st.batch, emb_type, emb_type, total_batches)
        all_indices == IF emb_type = "title_embeddings"
                       THEN LoadBatches(st.batch, emb_type, "indices", total_batches)
                       ELSE <<>>
    IN IF all_embeddings # <<>>
       THEN [batch |-> RemoveBatches(st.batch, emb_type, total_batches),
             final |-> [st.final EXCEPT ![emb_type] = Npy(all_embeddings)],
             all_indices |-> all_indices]
       ELSE [batch |-> st.batch, final |-> st.final, all_indices |-> all_indices]

RECURSIVE ConsolidateTypes(_, _, _)
ConsolidateTypes(st, k, total_batches) ==
    IF k = 0 THEN st
    ELSE ConsolidateType(ConsolidateTypes(st, k - 1, total_batches),
                         embedding_types[k], total_batches)

\* lines 136-177: consolidate_embedding_batches
consolidate_embedding_batches(files, finals, total_batches) ==
    LET st == ConsolidateTypes([batch |-> files, final |-> finals,
                                all_indices |-> <<>>],
                               Len(embedding_types), total_batches)
    IN [batch |-> RemoveBatches(st.batch, "indices", total_batches),
        final |-> IF st.all_indices # <<>>
                  THEN [st.final EXCEPT !["embedding_indices"] = Npy(st.all_indices)]
                  ELSE st.final,
        \* a batch whose files are missing is passed over by the test of
        \* line 150, which has no else branch: nothing is printed about it
        warnings |-> {}]

\* lines 404-411: the first result whose date is the date of the row
RECURSIVE FirstMatch(_, _, _)
FirstMatch(rs, d, k) ==
    IF k > Len(rs) THEN <<>>
    ELSE IF rs[k].date = d THEN <<rs[k]>> ELSE FirstMatch(rs, d, k + 1)

RECURSIVE results_ordered(_, _)
results_ordered(rs, row) ==
    IF row > NRows THEN <<>>
    ELSE FirstMatch(rs, row, 1) \o results_ordered(rs, row + 1)

\* lines 384-390: the skipped entries
RECURSIVE SkippedRows(_, _, _)
SkippedRows(imgs, paths, k) ==
    IF k > Len(imgs) THEN <<>>
    ELSE (IF imgs[k] \notin paths
          THEN <<[date |-> imgs[k], predicted_category |-> SKIPPED,
                  confidence_score |-> 0]>>
          ELSE <<>>)
         \o SkippedRows(imgs, paths, k + 1)

\* what an earlier run left in EMBEDDINGS_DIR: the four consolidated arrays of
\* a run that completed, and checkpoint 1 of a run that was aborted; their
\* rows belong to item 0, an item of that earlier run
StaleBatchFiles ==
    [f \in BatchFileNames |->
        IF f[2] = 1
        THEN Npy(<<IF f[1] = "indices" THEN 0 ELSE Emb(f[1], 0)>>)
        ELSE NoNpy]

StaleFinalFiles ==
    [f \in FinalFileNames |->
        IF f \in EmbTypes THEN Npy(<<Emb(f, 0)>>) ELSE NoNpy]

CleanBatchFiles == [f \in BatchFileNames |-> NoNpy]

CleanFinalFiles == [f \in FinalFileNames |-> NoNpy]

\* lines 128-134: the order in which save_embeddings_batch writes its files
save_order == embedding_types \o <<"indices">>

\* lines 116-134 when the np.save of file number fail_at raises: the files
\* before it are written, the others are as they were
save_embeddings_batch_failing(eb, batch_num, files, fail_at) ==
    [f \in BatchFileNames |->
        IF f[2] = batch_num
           /\ \E k \in 1..(fail_at - 1) : save_order[k] = f[1]
        THEN Npy(eb[f[1]]) ELSE files[f]]

\* an except clause around the call that lets the run go on
caught_and_ignored(next_phase) == next_phase

\* lines 370 and 381: save_embeddings_batch is called in no try block, and
\* neither is generate_clip_categorized_data (line 508): an exception of
\* np.save ends the run whatever was to come next
uncaught(next_phase) == "aborted"

\* process_batch has not been called
NoBatch ==
    [batch_data |-> <<>>, raised |-> FALSE,
     returned |-> [results |-> <<>>, embedding_batch |-> EmptyBatch,
                   top_k |-> <<>>]]

\* line 448: os.path.exists(ground_truth_csv) is False
NoGroundTruth == [exists |-> FALSE, rows |-> <<>>]

\* data/semantic_metrics_clip.csv has not been written
NoSemanticMetrics == [exists |-> FALSE]

ClipLocals ==
    /\ df_valid = <<>>
    /\ image_paths = {}
    /\ bi = 0
    /\ results = <<>>
    /\ all_top_k_predictions = <<>>
    /\ current_embedding_batch = EmptyBatch
    /\ batch_counter = 0
    /\ output = <<>>
    /\ ground_truth_df = NoGroundTruth
    /\ merged_df = <<>>
    /\ predictions_for_metrics = <<>>
    /\ semantic_metrics = NoSemanticMetrics
    /\ error = "none"
    /\ warnings = {}
    /\ last_batch = NoBatch

\* generate_clip_categorized_data is not running
ClipNotStarted ==
    /\ master = [i \in Rows |-> "video"]
    /\ phase = "idle"
    /\ batch_files = CleanBatchFiles
    /\ final_files = CleanFinalFiles
    /\ ClipLocals

\* lines 293-316: the master table has been read; EMBEDDINGS_DIR is empty or
\* holds what an earlier run left
InitClip ==
    /\ master \in MasterTables
    /\ phase = "validating"
    /\ \E stale \in BOOLEAN :
          /\ batch_files = IF stale THEN StaleBatchFiles ELSE CleanBatchFiles
          /\ final_files = IF stale THEN StaleFinalFiles ELSE CleanFinalFiles
    /\ ClipLocals

\* lines 318-322: preload_valid_images
Validate ==
    /\ phase = "validating"
    /\ df_valid' = preload_valid_images(master)
    /\ image_paths' = Range(preload_valid_images(master))
    /\ phase' = "labels"
    /\ UNCHANGED <<master, bi, results, all_top_k_predictions,
                   current_embedding_batch, batch_counter, batch_files,
                   final_files, output, evalVars, error, warnings, last_batch,
                   outsideClip>>

\* lines 324-338: the category embeddings and the locals of the batch loop
PrepareLabels ==
    /\ phase = "labels"
    /\ results' = <<>>
    /\ all_top_k_predictions' = <<>>
    /\ current_embedding_batch' = EmptyBatch
    /\ batch_counter' = 0
    /\ bi' = 0
    /\ phase' = IF Len(df_valid) = 0 THEN "remaining" ELSE "streaming"
    /\ UNCHANGED <<master, df_valid, image_paths, batch_files, final_files,
                   output, evalVars, error, warnings, last_batch, outsideClip>>

\* lines 340-377: one iteration of the batch loop. raises: a model call of
\* process_batch raised; fail_at: 0, or the number of the np.save that raised
\* in save_embeddings_batch (nothing in generate_clip_categorized_data
\* catches it)
BatchIteration(raises, fail_at) ==
    /\ phase = "streaming"
    /\ bi < Len(df_valid)
    /\ LET last == IF bi + CLIP_BATCH_SIZE < Len(df_valid)
                   THEN bi + CLIP_BATCH_SIZE ELSE Len(df_valid)
           batch_data_clip == SubSeq(df_valid, bi + 1, last)
           out == process_batch(master, batch_data_clip, raises)
           filled == Extend(current_embedding_batch, out.embedding_batch,
                            BatchLen(out.embedding_batch))
       IN /\ last_batch' =
                 [batch_data |-> batch_data_clip,
                  raised |-> raises /\ \E k \in 1..Len(batch_data_clip) :
                                load_and_preprocess_image(master[batch_data_clip[k]]),
                  returned |-> out]
          /\ results' = results \o [k \in 1..Len(out.results) |-> ResultRow(out.results[k])]
          /\ all_top_k_predictions' = all_top_k_predictions \o out.top_k
          /\ IF BatchLen(filled) >= SAVE_EMBEDDINGS_EVERY
             THEN IF fail_at = 0
                  THEN /\ batch_files' = save_embeddings_batch(filled, batch_counter, batch_files)
                       /\ current_embedding_batch' = clear(filled)
                       /\ batch_counter' = batch_counter + 1
                       /\ UNCHANGED error
                  ELSE /\ batch_files' = save_embeddings_batch_failing(
                                             filled, batch_counter, batch_files, fail_at)
                       /\ current_embedding_batch' = filled
                       /\ error' = "OSError"
                       /\ UNCHANGED batch_counter
             ELSE /\ fail_at = 0
                  /\ current_embedding_batch' = filled
                  /\ UNCHANGED <<batch_files, batch_counter, error>>
    /\ IF fail_at = 0
       THEN /\ bi' = bi + CLIP_BATCH_SIZE
            /\ phase' = IF bi + CLIP_BATCH_SIZE < Len(df_valid)
                        THEN "streaming" ELSE "remaining"
       ELSE /\ bi' = bi
            /\ phase' = uncaught("streaming")
    /\ UNCHANGED <<master, df_valid, image_paths, final_files, output,
                   evalVars, warnings, outsideClip>>

ProcessBatch == \E raises \in BOOLEAN : BatchIteration(raises, 0)

ProcessBatchSaveFails ==
    \E raises \in BOOLEAN, fail_at \in 1..Len(save_order) :
        BatchIteration(raises, fail_at)

\* lines 340-377: a KeyboardInterrupt while the batch loop runs. No try
\* statement of generate_clip_categorized_data or of its caller (line 508)
\* names KeyboardInterrupt, and the except clause of process_batch (line
\* 289) takes Exception only: the interrupt ends the run where it arrives.
\* Here it arrives between two iterations, when the locals are those the
\* last iteration left.
InterruptStreaming ==
    /\ phase = "streaming"
    /\ error' = "KeyboardInterrupt"
    /\ phase' = uncaught("streaming")
    /\ UNCHANGED <<master, df_valid, image_paths, bi, results,
                   all_top_k_predictions, current_embedding_batch,
                   batch_counter, batch_files, final_files, output, evalVars,
                   warnings, last_batch, outsideClip>>

\* lines 379-382: the remaining embeddings
RemainingFlush(fail_at) ==
    /\ phase = "remaining"
    /\ IF BatchLen(current_embedding_batch) > 0
       THEN IF fail_at = 0
            THEN /\ batch_files' = save_embeddings_batch(current_embedding_batch,
                                                         batch_counter, batch_files)
                 /\ batch_counter' = batch_counter + 1
                 /\ phase' = "skipped"
                 /\ UNCHANGED error
            ELSE /\ batch_files' = save_embeddings_batch_failing(
                                       current_embedding_batch, batch_counter,
                                       batch_files, fail_at)
                 /\ error' = "OSError"
                 /\ phase' = uncaught("skipped")
                 /\ UNCHANGED batch_counter
       ELSE /\ fail_at = 0
            /\ phase' = "skipped"
            /\ UNCHANGED <<batch_files, batch_counter, error>>
    /\ UNCHANGED <<master, df_valid, image_paths, bi, results,
                   all_top_k_predictions, current_embedding_batch, final_files,
                   output, evalVars, warnings, last_batch, outsideClip>>

SaveRemaining == RemainingFlush(0)

SaveRemainingFails == \E fail_at \in 1..Len(save_order) : RemainingFlush(fail_at)

\* lines 384-390: the skipped entries are added to the results
AddSkipped ==
    /\ phase = "skipped"
    /\ results' = results \o SkippedRows(df_images(master), image_paths, 1)
    /\ phase' = "consolidating"
    /\ UNCHANGED <<master, df_valid, image_paths, bi, all_top_k_predictions,
                   current_embedding_batch, batch_counter, batch_files,
                   final_files, output, evalVars, error, warnings, last_batch,
                   outsideClip>>

\* Not a step of the program: the five files of one checkpoint of this run
\* are no longer in EMBEDDINGS_DIR when the consolidation starts (removed by
\* another process, or lost with the disk that held them).
CheckpointLost ==
    /\ phase = "consolidating"
    /\ \A f \in BatchFileNames : f[2] < batch_counter => batch_files[f].exists
    /\ \E n \in 0..(batch_counter - 1) :
          batch_files' = [f \in BatchFileNames |->
                             IF f[2] = n THEN NoNpy ELSE batch_files[f]]
    /\ UNCHANGED <<master, phase, df_valid, image_paths, bi, results,
                   all_top_k_predictions, current_embedding_batch,
                   batch_counter, final_files, output, evalVars, error,
                   warnings, last_batch, outsideClip>>

\* line 397: consolidate_embedding_batches(EMBEDDINGS_DIR, batch_counter)
Consolidate ==
    /\ phase = "consolidating"
    /\ LET disk == consolidate_embedding_batches(batch_files, final_files, batch_counter)
       IN /\ batch_files' = disk.batch
          /\ final_files' = disk.final
          /\ warnings' = disk.warnings
    /\ phase' = "writing"
    /\ UNCHANGED <<master, df_valid, image_paths, bi, results,
                   all_top_k_predictions, current_embedding_batch,
                   batch_counter, output, evalVars, error, last_batch,
                   outsideClip>>

\* lines 399-418: the categorized table is written
WriteOutput ==
    /\ phase = "writing"
    /\ output' = results_ordered(results, 1)
    /\ phase' = "evaluating"
    /\ UNCHANGED <<master, df_valid, image_paths, bi, results,
                   all_top_k_predictions, current_embedding_batch,
                   batch_counter, batch_files, final_files, evalVars, error,
                   warnings, last_batch, outsideClip>>

(***************************************************************************)
(* scripts/process_apod.py: RateLimiter and fetch_apod_data                *)
(***************************************************************************)
Min(a, b) == IF a < b THEN a ELSE b

\* how a request ends: a status code, or an exception of requests
Statuses == {"200", "429", "404", "other", "timeout", "connection", "request"}

\* how long session.get takes: no time, or as long as the timeout lets it
Durations == {0, REQUEST_TIMEOUT}

\* time.time() - last_request_time matters only below the largest delay
ElapsedCap == MAX_DELAY + MAX_DELAY \div 10 + 1

Later(el, t) == Min(el + t, ElapsedCap)

\* lines 46 and 62: min(base_delay * (2 ** consecutive_429s), max_delay)
backoff(c) == Min(BASE_DELAY * 2^c, MAX_DELAY)

\* line 48: random.uniform(0, delay * 0.1), its ends and its middle
Jitter(c) ==
    IF c > 0 THEN {0, backoff(c) \div 20, backoff(c) \div 10} ELSE {0}

\* lines 45-50: the delay of wait_before_request
delay(c, j) == IF c > 0 THEN backoff(c) + j ELSE BASE_DELAY

\* a wait_before_request that never sleeps
wait_before_request_never(c, el, j) == 0

\* lines 52-55: the time wait_before_request sleeps
wait_before_request(c, el, j) ==
    IF el < delay(c, j) THEN delay(c, j) - el ELSE 0

\* a handle_429 that sleeps and does not count
handle_429_without_count(c) == [consecutive_429s |-> c, sleep |-> backoff(c + 1)]

\* lines 59-64: handle_429, the new counter and the time it sleeps
handle_429(c) == [consecutive_429s |-> c + 1, sleep |-> backoff(c + 1)]

\* a reset that leaves the counter as it is
reset_429_counter_skipped(c) == c

\* lines 66-68: reset_429_counter
reset_429_counter(c) == 0

\* a loop that goes round once more than RETRY_ATTEMPTS
attempts_left_one_more(a) == a <= RETRY_ATTEMPTS

\* line 87: for attempt in range(RETRY_ATTEMPTS)
attempts_left(a) == a < RETRY_ATTEMPTS

\* lines 103, 110, 115, 120: attempt < RETRY_ATTEMPTS - 1
not_last_attempt(a) == a < RETRY_ATTEMPTS - 1

\* lines 104, 111, 121: time.sleep(2 ** attempt)
error_backoff(a) == 10 * 2^a

\* line 116: time.sleep(5)
connection_backoff == 10 * 5

InitFetch ==
    /\ consecutive_429s = 0
    /\ elapsed = ElapsedCap
    /\ fpc = "idle"
    /\ api_date = 0
    /\ attempt = 0
    /\ fetch_result = "pending"
    /\ entry_429s = 0
    /\ requests = 0
    /\ status = "none"
    /\ n429 = 0
    /\ slept = 0
    /\ waits = <<>>
    /\ reported = {}

\* lines 177-181 and 83-85: the caller reaches the next date, some time after
\* the last call returned, and calls fetch_apod_data
CallFetch ==
    /\ UNCHANGED outsideFetch
    /\ fpc \in {"idle", "returned"}
    /\ api_date < NFetchDates
    /\ api_date' = api_date + 1
    /\ \E pause \in {0, ElapsedCap} : elapsed' = Later(elapsed, pause)
    /\ fpc' = "loop"
    /\ attempt' = 0
    /\ fetch_result' = "pending"
    /\ entry_429s' = consecutive_429s
    /\ requests' = 0
    /\ status' = "none"
    /\ n429' = 0
    /\ slept' = 0
    /\ waits' = <<>>
    /\ UNCHANGED <<consecutive_429s, reported>>

\* lines 87-90: the loop goes round, wait_before_request, session.get
BeginAttempt ==
    /\ UNCHANGED outsideFetch
    /\ fpc = "loop"
    /\ attempts_left(attempt)
    /\ \E j \in Jitter(consecutive_429s) :
         LET sleep_time == wait_before_request(consecutive_429s, elapsed, j)
         IN /\ slept' = slept + sleep_time
            /\ waits' = IF status = "429"
                        THEN Append(waits, slept + sleep_time) ELSE waits
    /\ elapsed' = 0
    /\ requests' = requests + 1
    /\ fpc' = "sent"
    /\ UNCHANGED <<consecutive_429s, api_date, attempt, fetch_result,
                   entry_429s, status, n429, reported>>

\* lines 92-94: HTTP 200
On200 ==
    /\ UNCHANGED outsideFetch
    /\ fpc = "sent"
    /\ \E dur \in Durations : elapsed' = Later(elapsed, dur)
    /\ consecutive_429s' = reset_429_counter(consecutive_429s)
    /\ status' = "200"
    /\ fetch_result' = "json"
    /\ reported' = reported \cup {<<"ok", "json">>}
    /\ fpc' = "returned"
    /\ UNCHANGED <<api_date, attempt, entry_429s, requests, n429, slept, waits>>

\* lines 95-97: HTTP 429
On429 ==
    /\ UNCHANGED outsideFetch
    /\ fpc = "sent"
    /\ \E dur \in Durations :
         elapsed' = Later(elapsed, dur + handle_429(consecutive_429s).sleep)
    /\ consecutive_429s' = handle_429(consecutive_429s).consecutive_429s
    /\ slept' = handle_429(consecutive_429s).sleep
    /\ status' = "429"
    /\ n429' = n429 + 1
    /\ attempt' = attempt + 1
    /\ fpc' = "loop"
    /\ UNCHANGED <<api_date, fetch_result, entry_429s, requests, waits, reported>>

\* lines 98-100: HTTP 404
On404 ==
    /\ UNCHANGED outsideFetch
    /\ fpc = "sent"
    /\ \E dur \in Durations : elapsed' = Later(elapsed, dur)
    /\ status' = "404"
    /\ fetch_result' = "None"
    /\ reported' = reported \cup {<<"notfound", "None">>}
    /\ fpc' = "returned"
    /\ UNCHANGED <<consecutive_429s, api_date, attempt, entry_429s, requests,
                   n429, slept, waits>>

\* lines 101-106: any other status code
OnOtherStatus ==
    /\ UNCHANGED outsideFetch
    /\ fpc = "sent"
    /\ status' = "other"
    /\ waits' = <<>>
    /\ IF not_last_attempt(attempt)
       THEN /\ \E dur \in Durations :
                 elapsed' = Later(elapsed, dur + error_backoff(attempt))
            /\ slept' = error_backoff(attempt)
            /\ attempt' = attempt + 1
            /\ fpc' = "loop"
            /\ UNCHANGED <<fetch_result, reported>>
       ELSE /\ \E dur \in Durations : elapsed' = Later(elapsed, dur)
            /\ fetch_result' = "None"
            /\ reported' = reported \cup {<<"exhausted", "None">>}
            /\ fpc' = "returned"
            /\ UNCHANGED <<slept, attempt>>
    /\ UNCHANGED <<consecutive_429s, api_date, entry_429s, requests, n429>>

\* what the three except clauses share: sleep when this is not the last
\* attempt, then the next round of the loop
Retry(how, dur, sleep) ==
    /\ status' = how
    /\ waits' = <<>>
    /\ IF not_last_attempt(attempt)
       THEN /\ elapsed' = Later(elapsed, dur + sleep)
            /\ slept' = sleep
       ELSE /\ elapsed' = Later(elapsed, dur)
            /\ slept' = 0
    /\ attempt' = attempt + 1
    /\ fpc' = "loop"
    /\ UNCHANGED <<consecutive_429s, api_date, fetch_result, entry_429s,
                   requests, n429, reported>>

\* lines 108-112: requests.exceptions.Timeout
OnTimeout ==
    /\ UNCHANGED outsideFetch
    /\ fpc = "sent"
    /\ Retry("timeout", REQUEST_TIMEOUT, error_backoff(attempt))

\* lines 113-117: requests.exceptions.ConnectionError
OnConnectionError ==
    /\ UNCHANGED outsideFetch
    /\ fpc = "sent"
    /\ \E dur \in Durations : Retry("connection", dur, connection_backoff)

\* lines 118-122: any other requests.exceptions.RequestException
OnRequestException ==
    /\ UNCHANGED outsideFetch
    /\ fpc = "sent"
    /\ \E dur \in Durations : Retry("request", dur, error_backoff(attempt))

\* lines 124-125: the loop is over, return None
GiveUp ==
    /\ UNCHANGED outsideFetch
    /\ fpc = "loop"
    /\ ~attempts_left(attempt)
    /\ fetch_result' = "None"
    /\ reported' = reported \cup {<<"exhausted", "None">>}
    /\ fpc' = "returned"
    /\ UNCHANGED <<consecutive_429s, elapsed, api_date, attempt, entry_429s,
                   requests, status, n429, slept, waits>>

NextFetch ==
    \/ CallFetch
    \/ BeginAttempt
    \/ On200
    \/ On429
    \/ On404
    \/ OnOtherStatus
    \/ OnTimeout
    \/ OnConnectionError
    \/ OnRequestException
    \/ GiveUp

(***************************************************************************)
(* src/utils/metrics.py                                                    *)
(***************************************************************************)
\* Labels that appear in ranked lists and in the ground truth.
MetricLabels == {"a", "b"}

SeqsUpTo(S, len) == UNION {[1..m -> S] : m \in 0..len}

\* the ranked lists, duplicates and empty lists included
RankedLists == SeqsUpTo(MetricLabels, MaxRanked)

\* A float result is kept as the exact fraction num / den; the exceptions
\* are results of their own.
Value(num, den) == [kind |-> "value", num |-> num, den |-> den]

ValueError == [kind |-> "ValueError", num |-> 0, den |-> 0]

ZeroDivisionError == [kind |-> "ZeroDivisionError", num |-> 0, den |-> 0]

NotCalled == [kind |-> "none", num |-> 0, den |-> 0]

\* x / y of two numbers: ZeroDivisionError when y is 0
Divide(x, y) == IF y = 0 THEN ZeroDivisionError ELSE Value(x, y)

\* a test that lets shorter predictions through
length_mismatch_when_longer(predictions, ground_truth) ==
    Len(predictions) > Len(ground_truth)

\* lines 148, 164, 184: len(predictions) != len(ground_truth)
length_mismatch(predictions, ground_truth) ==
    Len(predictions) # Len(ground_truth)

\* a slice that stops one entry early
slice_one_short(ranked, n) ==
    SubSeq(ranked, 1, Min(n - 1, Len(ranked)))

\* line 153: predictions[i][:n], the slice of Python (a negative n counts
\* from the end)
slice(ranked, n) ==
    IF n >= 0 THEN SubSeq(ranked, 1, Min(n, Len(ranked)))
    ELSE SubSeq(ranked, 1, IF Len(ranked) + n > 0 THEN Len(ranked) + n ELSE 0)

\* line 153: x in list
Contains(ranked, x) == \E j \in 1..Len(ranked) : ranked[j] = x

\* lines 151-154: the loop counting correct_predictions over items 1..i
RECURSIVE correct_predictions(_, _, _, _)
correct_predictions(predictions, ground_truth, n, i) ==
    IF i = 0 THEN 0
    ELSE correct_predictions(predictions, ground_truth, n, i - 1)
         + (IF Contains(slice(predictions[i], n), ground_truth[i])
            THEN 1 ELSE 0)

\* lines 140-155
calculate_top_n_accuracy(predictions, ground_truth, n) ==
    IF length_mismatch(predictions, ground_truth) THEN ValueError
    ELSE Divide(correct_predictions(predictions, ground_truth, n,
                                    Len(predictions)),
                Len(predictions))

\* a search that goes on to the last occurrence
RECURSIVE list_index_of_last(_, _, _)
list_index_of_last(ranked, x, from) ==
    IF from >= Len(ranked) THEN -1
    ELSE IF ranked[Len(ranked) - from] = x THEN Len(ranked) - from - 1
         ELSE list_index_of_last(ranked, x, from + 1)

\* line 170: predictions[i].index(ground_truth[i]), searching from position
\* from (0-based); -1 stands for the ValueError of list.index
RECURSIVE list_index(_, _, _)
list_index(ranked, x, from) ==
    IF from >= Len(ranked) THEN -1
    ELSE IF ranked[from + 1] = x THEN from
         ELSE list_index(ranked, x, from + 1)

RECURSIVE Factorial(_)
Factorial(m) == IF m <= 1 THEN 1 ELSE m * Factorial(m - 1)

\* 1 / rank is kept as a whole number of RankUnits-th parts
RankUnits ==
    Factorial(IF MaxRanked > Len(APOD_LABELS) THEN MaxRanked
              ELSE Len(APOD_LABELS))

\* lines 167-173: the loop building reciprocal_ranks over items 1..i, each
\* entry in RankUnits-th parts
RECURSIVE reciprocal_ranks(_, _, _)
reciprocal_ranks(predictions, ground_truth, i) ==
    IF i = 0 THEN <<>>
    ELSE LET index == list_index(predictions[i], ground_truth[i], 0)
         IN Append(reciprocal_ranks(predictions, ground_truth, i - 1),
                   IF index # -1 THEN RankUnits \div (index + 1) ELSE 0)

\* lines 174 and 195: sum(list)
RECURSIVE sum(_)
sum(list) == IF list = <<>> THEN 0 ELSE Head(list) + sum(Tail(list))

\* lines 157-174
calculate_mrr(predictions, ground_truth) ==
    IF length_mismatch(predictions, ground_truth) THEN ValueError
    ELSE LET ranks == reciprocal_ranks(predictions, ground_truth,
                                       Len(predictions))
         IN Divide(sum(ranks), RankUnits * Len(ranks))

\* a loop that leaves out the last position it should look at
top_k_positions_one_short(ranked, k) == 1..(Min(k, Len(ranked)) - 1)

\* line 190: for j in range(min(k, len(predictions[i]))), as positions
\* counted from 1
top_k_positions(ranked, k) == 1..Min(k, Len(ranked))

\* lines 189-193: relevant_in_top_k of one item
relevant_in_top_k(ranked, truth, k) ==
    IF \E j \in top_k_positions(ranked, k) : ranked[j] = truth THEN 1 ELSE 0

\* lines 187-194: the loop building precision_scores over items 1..i
RECURSIVE precision_scores(_, _, _, _)
precision_scores(predictions, ground_truth, k, i) ==
    IF i = 0 THEN <<>>
    ELSE Append(precision_scores(predictions, ground_truth, k, i - 1),
                relevant_in_top_k(predictions[i], ground_truth[i], k))

\* lines 176-195
calculate_precision_at_k(predictions, ground_truth, k) ==
    IF length_mismatch(predictions, ground_truth) THEN ValueError
    ELSE LET scores == precision_scores(predictions, ground_truth, k,
                                        Len(predictions))
         IN Divide(sum(scores), Len(scores))

\* the two pipelines that evaluate against a ground truth:
\* scripts/generate_categorized_data.py (categorize_data) and
\* generate_clip_categorized_data.py
Pipelines == {"categorize_data", "generate_clip_categorized_data"}

\* a test that lets the empty table through
empty_never(table) == FALSE

\* generate_categorized_data.py line 105, generate_clip_categorized_data.py
\* line 459: merged_df.empty
empty(table) == Len(table) = 0

\* no metric has been called
MetricsNotCalled ==
    /\ arg_predictions = <<>>
    /\ arg_ground_truth = <<>>
    /\ arg_n = 1
    /\ metric_called = "none"
    /\ metric_result = NotCalled
    /\ caller = "direct"

\* the arguments of a call: any lists of any lengths, n and k from 1 on. In
\* a pipeline the two lists have one entry for each row of merged_df
\* (generate_categorized_data.py lines 106 and 115-118,
\* generate_clip_categorized_data.py lines 460 and 472-475)
InitMetrics ==
    /\ caller \in Pipelines \cup {"direct"}
    /\ arg_predictions \in SeqsUpTo(RankedLists, MaxItems)
    /\ arg_ground_truth \in SeqsUpTo(MetricLabels, MaxItems)
    /\ caller \in Pipelines => Len(arg_predictions) = Len(arg_ground_truth)
    /\ arg_n \in 1..(MaxRanked + 1)
    /\ metric_called = "none"
    /\ metric_result = NotCalled

\* generate_categorized_data.py lines 105 and 120-123,
\* generate_clip_categorized_data.py lines 459 and 477-480: a pipeline
\* reaches its calls only under `if not merged_df.empty`
Reached == caller \in Pipelines => ~empty(arg_ground_truth)

CallTopNAccuracy ==
    /\ UNCHANGED outsideMetrics
    /\ metric_called = "none"
    /\ Reached
    /\ metric_called' = "calculate_top_n_accuracy"
    /\ metric_result' =
           calculate_top_n_accuracy(arg_predictions, arg_ground_truth, arg_n)
    /\ UNCHANGED <<arg_predictions, arg_ground_truth, arg_n, caller>>

CallMRR ==
    /\ UNCHANGED outsideMetrics
    /\ metric_called = "none"
    /\ Reached
    /\ metric_called' = "calculate_mrr"
    /\ metric_result' = calculate_mrr(arg_predictions, arg_ground_truth)
    /\ UNCHANGED <<arg_predictions, arg_ground_truth, arg_n, caller>>

CallPrecisionAtK ==
    /\ UNCHANGED outsideMetrics
    /\ metric_called = "none"
    /\ Reached
    /\ metric_called' = "calculate_precision_at_k"
    /\ metric_result' =
           calculate_precision_at_k(arg_predictions, arg_ground_truth, arg_n)
    /\ UNCHANGED <<arg_predictions, arg_ground_truth, arg_n, caller>>

\* generate_categorized_data.py lines 138-139,
\* generate_clip_categorized_data.py lines 497-498: the else branch of a
\* pipeline, no metric is computed
NoMatchingEntries ==
    /\ UNCHANGED outsideMetrics
    /\ metric_called = "none"
    /\ ~Reached
    /\ metric_called' = "skipped"
    /\ UNCHANGED <<arg_predictions, arg_ground_truth, arg_n, metric_result,
                   caller>>

NextMetrics ==
    \/ CallTopNAccuracy
    \/ CallMRR
    \/ CallPrecisionAtK
    \/ NoMatchingEntries

(***************************************************************************)
(* generate_clip_categorized_data.py, lines 447-505: the evaluation.       *)
(***************************************************************************)
\* the title of the master row of a date, and a title no master row has
title_of(d) == <<"title", d>>

OtherTitle == <<"title", 0>>

\* the dates the ground truth may have a row for, and the labels it gives
TruthDates == {1, 2}

TruthCategories == {"Galaxy", "Nebula"}

\* the row of the ground truth for one date, if it has one: the title is the
\* one of the master table or another one
TruthRowChoices(d) ==
    {<<>>} \cup
    {<<[date |-> d, title |-> t, true_category |-> c]>> :
        t \in {title_of(d), OtherTitle}, c \in TruthCategories}

\* ground_truth_csv: absent, or rows with distinct (date, title)
GroundTruthFiles ==
    {NoGroundTruth} \cup
    {[exists |-> TRUE, rows |-> r1 \o r2] :
        r1 \in TruthRowChoices(1), r2 \in TruthRowChoices(2)}

\* line 453: pd.DataFrame(results); a row of results carries the columns of
\* its master row, the title among them
processed_df(rs) ==
    [k \in 1..Len(rs) |->
        [date |-> rs[k].date, title |-> title_of(rs[k].date),
         predicted_category |-> rs[k].predicted_category]]

\* the rows of the right table whose key is the key of a left row
Matches(row, right) ==
    SelectSeq(right, LAMBDA g : g.date = row.date /\ g.title = row.title)

\* a join that keeps the left rows without a match
RECURSIVE merge_left(_, _, _)
merge_left(left, right, k) ==
    IF k > Len(left) THEN <<>>
    ELSE LET found == Matches(left[k], right)
         IN (IF found = <<>>
             THEN <<[date |-> left[k].date, title |-> left[k].title,
                     true_category |-> "nan"]>>
             ELSE [j \in 1..Len(found) |->
                      [date |-> left[k].date, title |-> left[k].title,
                       true_category |-> found[j].true_category]])
            \o merge_left(left, right, k + 1)

\* line 457: pd.merge(left, right, on=['date', 'title'], how='inner'), from
\* row k of left on: the key order of the left table is kept
RECURSIVE merge(_, _, _)
merge(left, right, k) ==
    IF k > Len(left) THEN <<>>
    ELSE LET found == Matches(left[k], right)
         IN [j \in 1..Len(found) |->
                [date |-> left[k].date, title |-> left[k].title,
                 true_category |-> found[j].true_category]]
            \o merge(left, right, k + 1)

\* lines 464-470 and 475: top_k_map.get(key, []); the entry of a row of
\* df_valid is the ranked list at the position of that row in df_valid
top_k_map_get(valid, top_k, row) ==
    LET at == {p \in 1..Len(valid) :
                  /\ valid[p] = row.date
                  /\ title_of(valid[p]) = row.title
                  /\ p - 1 < Len(top_k)}
    IN IF at = {} THEN <<>> ELSE top_k[CHOOSE p \in at : TRUE]

\* lines 477-487
semantic_metrics_of(predictions, true_labels) ==
    [exists |-> TRUE,
     top1_accuracy |-> calculate_top_n_accuracy(predictions, true_labels, 1),
     top3_accuracy |-> calculate_top_n_accuracy(predictions, true_labels, 3),
     mrr |-> calculate_mrr(predictions, true_labels),
     precision_at_1 |-> calculate_precision_at_k(predictions, true_labels, 1)]

\* the metrics that raised
Raising(metrics) ==
    {m \in {metrics.top1_accuracy, metrics.top3_accuracy, metrics.mrr,
            metrics.precision_at_1} : m.kind # "value"}

\* lines 447-505: the evaluation, with the ground truth file as line 448
\* finds it
Evaluate ==
    /\ phase = "evaluating"
    /\ \E gt \in GroundTruthFiles :
       /\ ground_truth_df' = gt
       /\ IF ~gt.exists
          THEN /\ phase' = "done"
               /\ UNCHANGED <<merged_df, predictions_for_metrics,
                              semantic_metrics, error>>
          ELSE IF results = <<>>
          \* line 457: a DataFrame made of no rows has no column 'date'
          THEN /\ phase' = "aborted"
               /\ error' = "KeyError"
               /\ UNCHANGED <<merged_df, predictions_for_metrics,
                              semantic_metrics>>
          ELSE LET merged == merge(processed_df(results), gt.rows, 1)
                   true_labels == [k \in 1..Len(merged) |-> merged[k].true_category]
                   predictions ==
                       [k \in 1..Len(merged) |->
                           top_k_map_get(df_valid, all_top_k_predictions, merged[k])]
                   metrics == semantic_metrics_of(predictions, true_labels)
               IN /\ merged_df' = merged
                  /\ IF empty(merged)
                     THEN /\ phase' = "done"
                          /\ UNCHANGED <<predictions_for_metrics,
                                         semantic_metrics, error>>
                     ELSE /\ predictions_for_metrics' = predictions
                          /\ IF Raising(metrics) = {}
                             THEN /\ semantic_metrics' = metrics
                                  /\ phase' = "done"
                                  /\ UNCHANGED error
                             ELSE /\ phase' = "aborted"
                                  /\ error' = (CHOOSE m \in Raising(metrics) : TRUE).kind
                                  /\ UNCHANGED semantic_metrics
    /\ UNCHANGED <<master, df_valid, image_paths, bi, results,
                   all_top_k_predictions, current_embedding_batch,
                   batch_counter, batch_files, final_files, output, warnings,
                   last_batch, outsideClip>>

NextClip ==
    \/ Validate
    \/ PrepareLabels
    \/ ProcessBatch
    \/ ProcessBatchSaveFails
    \/ InterruptStreaming
    \/ SaveRemaining
    \/ SaveRemainingFails
    \/ AddSkipped
    \/ CheckpointLost
    \/ Consolidate
    \/ WriteOutput
    \/ Evaluate

(***************************************************************************)
(* python/src/ml_models/fastclassifier.py, and the ranking of              *)
(* process_batch in generate_clip_categorized_data.py                      *)
(***************************************************************************)
\* the strategies of FastClassifier.__init__
Methods == {"embedding", "small_zeroshot", "quantized_bart"}

\* the cosine similarities and softmax scores, as whole numbers
ScoreValues == {0, 1, 2}

\* the label lists: APOD_LABELS and its shorter beginnings
LabelLists == {Prefix(APOD_LABELS, len) : len \in 1..Len(APOD_LABELS)}

\* the score of every label for one text
ScoreVectors(labels) == [1..Len(labels) -> ScoreValues]

Orders(len) ==
    {order \in [1..len -> 1..len] :
        \A a, b \in 1..len : a # b => order[a] # order[b]}

\* an ordering that does not look at the scores
argsort_unsorted(scores) == Orders(Len(scores))

\* np.argsort(scores): every order of the positions by ascending score; the
\* order of equal scores is left to the sort
argsort(scores) ==
    {order \in Orders(Len(scores)) :
        \A a, b \in 1..Len(scores) :
            a < b => scores[order[a]] <= scores[order[b]]}

\* [::-1]
reversed(list) == [k \in 1..Len(list) |-> list[Len(list) + 1 - k]]

\* tensor.topk(k): the positions of the k largest scores, largest first; the
\* order of equal scores is left to the sort
topk(scores, k) ==
    {Prefix(order, k) : order \in
        {o \in Orders(Len(scores)) :
            \A a, b \in 1..Len(scores) :
                a < b => scores[o[a]] >= scores[o[b]]}}

\* lines 48-52: the result of one text, from its scores and sorted_indices
\* (float() of a numpy float32 keeps its value)
Result(text, labels, scores, sorted_indices) ==
    [sequence |-> text,
     labels |-> [k \in 1..Len(sorted_indices) |-> labels[sorted_indices[k]]],
     scores |-> [k \in 1..Len(sorted_indices) |-> scores[sorted_indices[k]]]]

\* lines 45-52 of classify_embedding_method: what a text with these scores
\* can get
embedding_results(text, labels, scores) ==
    {Result(text, labels, scores, reversed(order)) : order \in argsort(scores)}

\* generate_clip_categorized_data.py lines 258-285: what an item with these
\* scores can get from topk over all the labels
topk_results(text, labels, scores) ==
    {Result(text, labels, scores, order) :
        order \in topk(scores, Len(labels))}

\* line 67: the zero-shot pipeline (transformers) ranks all the candidate
\* labels of a text by score, largest first; two score values give it every
\* order and every tie
pipeline_results(text, labels) ==
    UNION {topk_results(text, labels, scores) :
           scores \in [1..Len(labels) -> {0, 1}]}

\* line 66: texts[i:i+batch_size]
batch_of(list, i, size) == SubSeq(list, i + 1, Min(i + size, Len(list)))

\* a collection that drops what is not a list
collect_lists_only(res, is_list, out) ==
    IF is_list THEN res \o out ELSE res

\* lines 68-71: extend with a list, append a single result
collect(res, is_list, out) ==
    IF is_list THEN res \o out ELSE Append(res, out[1])

ClassifyNotCalled ==
    /\ method = "embedding"
    /\ texts = <<>>
    /\ candidate_labels = <<>>
    /\ batch_size = 1
    /\ cpc = "idle"
    /\ offset = 0
    /\ similarities = <<>>
    /\ batch_results = <<>>
    /\ classify_results = <<>>
    /\ classify_returned = FALSE
    /\ single_results = 0

\* the call: one to MaxTexts texts, a label list without duplicates, a
\* batch_size from 1 on; process_batch ranks against APOD_LABELS
InitClassify ==
    /\ method \in Methods \cup {"clip"}
    /\ texts \in {[k \in 1..len |-> k] : len \in 1..MaxTexts}
    /\ candidate_labels \in LabelLists
    /\ method = "clip" => candidate_labels = APOD_LABELS
    /\ batch_size \in 1..MaxTexts
    /\ method \in {"embedding", "clip"} => batch_size = 1
    /\ cpc = "loop"
    /\ offset = 0
    /\ similarities = <<>>
    /\ batch_results = <<>>
    /\ classify_results = <<>>
    /\ classify_returned = FALSE
    /\ single_results = 0

\* lines 61-62 and 44-53: one round of the loop of classify_embedding_method
ClassifyText ==
    /\ UNCHANGED outsideClassify
    /\ method = "embedding"
    /\ cpc = "loop"
    /\ offset < Len(texts)
    /\ \E scores \in ScoreVectors(candidate_labels) :
         /\ similarities' = Append(similarities, scores)
         /\ \E result \in embedding_results(texts[offset + 1],
                                              candidate_labels, scores) :
              classify_results' = Append(classify_results, result)
    /\ offset' = offset + 1
    /\ UNCHANGED <<method, texts, candidate_labels, batch_size, cpc,
                   batch_results, classify_returned, single_results>>

\* generate_clip_categorized_data.py lines 265-285: one round of the loop of
\* process_batch over the items of the batch
RankItem ==
    /\ UNCHANGED outsideClassify
    /\ method = "clip"
    /\ cpc = "loop"
    /\ offset < Len(texts)
    /\ \E scores \in ScoreVectors(candidate_labels) :
         /\ similarities' = Append(similarities, scores)
         /\ \E result \in topk_results(texts[offset + 1],
                                         candidate_labels, scores) :
              classify_results' = Append(classify_results, result)
    /\ offset' = offset + 1
    /\ UNCHANGED <<method, texts, candidate_labels, batch_size, cpc,
                   batch_results, classify_returned, single_results>>

\* line 67: the pipeline ranks the next text of the batch
PipelineText ==
    /\ UNCHANGED outsideClassify
    /\ method \in {"small_zeroshot", "quantized_bart"}
    /\ cpc = "loop"
    /\ offset < Len(texts)
    /\ LET batch == batch_of(texts, offset, batch_size)
       IN /\ Len(batch_results) < Len(batch)
          /\ \E result \in pipeline_results(batch[Len(batch_results) + 1],
                                            candidate_labels) :
               batch_results' = Append(batch_results, result)
    /\ UNCHANGED <<method, texts, candidate_labels, batch_size, cpc, offset,
                   similarities, classify_results, classify_returned,
                   single_results>>

\* lines 67-71: the pipeline answers with a list, or with the single result
\* of a batch of one text, and the loop collects the answer
CollectBatch ==
    /\ UNCHANGED outsideClassify
    /\ method \in {"small_zeroshot", "quantized_bart"}
    /\ cpc = "loop"
    /\ offset < Len(texts)
    /\ Len(batch_results) = Len(batch_of(texts, offset, batch_size))
    /\ \E is_list \in BOOLEAN :
         /\ ~is_list => Len(batch_results) = 1
         /\ classify_results' = collect(classify_results, is_list, batch_results)
         /\ single_results' = IF is_list THEN single_results
                              ELSE single_results + 1
    /\ batch_results' = <<>>
    /\ offset' = offset + batch_size
    /\ UNCHANGED <<method, texts, candidate_labels, batch_size, cpc,
                   similarities, classify_returned>>

\* lines 55 and 73: return results
ReturnResults ==
    /\ UNCHANGED outsideClassify
    /\ cpc = "loop"
    /\ offset >= Len(texts)
    /\ classify_returned' = TRUE
    /\ cpc' = "returned"
    /\ UNCHANGED <<method, texts, candidate_labels, batch_size, offset,
                   similarities, batch_results, classify_results,
                   single_results>>

NextClassify ==
    \/ ClassifyText
    \/ RankItem
    \/ PipelineText
    \/ CollectBatch
    \/ ReturnResults

(***************************************************************************)
(* generate_clip_categorized_data.py, lines 77-114: preload_valid_images   *)
(* with the threads of its ThreadPoolExecutor.                             *)
(***************************************************************************)
Workers == 1..NUM_WORKERS

\* lines 86-89: the local path of the image of a row
local_image_path(i) == <<"images", i>>

\* lines 91-94: what check_image_path returns for task k, the k-th row of
\* df_images
check_result(m, k) ==
    LET i == df_images(m)[k]
    IN [index |-> i, path |-> local_image_path(i),
        is_valid |-> check_image_path(m[i])]

\* an iterator that yields the results as they complete
yield_as_completed(fut, yielded) ==
    {k \in 1..NRows : fut[k] = "done" /\ k \notin yielded}

\* lines 98-99: the iterator of executor.map yields the results in the order
\* of its input, each one when its future is done: the tasks it can yield
\* next, given the futures and the tasks yielded so far
yield_in_order(fut, yielded) ==
    {k \in 1..NRows : fut[k] = "done" /\ k = Cardinality(yielded) + 1}

\* preload_valid_images is not running
PreloadNotCalled ==
    /\ ppc = "idle"
    /\ next_task = 1
    /\ executor = [w \in Workers |-> 0]
    /\ futures = [k \in 1..NRows |-> "none"]
    /\ check_results = <<>>
    /\ valid_indices = <<>>
    /\ paths_by_index = <<>>
    /\ completion_order = <<>>

\* lines 97-99: executor.map has submitted one task per row of df_images
InitPreload ==
    /\ master \in MasterTables
    /\ ppc = "mapping"
    /\ next_task = 1
    /\ executor = [w \in Workers |-> 0]
    /\ futures = [k \in 1..NRows |->
                     IF k <= Len(df_images(master)) THEN "pending" ELSE "none"]
    /\ check_results = <<>>
    /\ valid_indices = <<>>
    /\ paths_by_index = <<>>
    /\ completion_order = <<>>

\* an idle worker thread takes the next task of the work queue
WorkerTakes(w) ==
    /\ UNCHANGED outsidePreload
    /\ ppc = "mapping"
    /\ executor[w] = 0
    /\ next_task <= Len(df_images(master))
    /\ executor' = [executor EXCEPT ![w] = next_task]
    /\ next_task' = next_task + 1
    /\ UNCHANGED <<ppc, futures, check_results, valid_indices, paths_by_index,
                   completion_order>>

\* lines 81-94: the worker thread returns from check_image_path
WorkerFinishes(w) ==
    /\ UNCHANGED outsidePreload
    /\ ppc = "mapping"
    /\ executor[w] # 0
    /\ futures' = [futures EXCEPT ![executor[w]] = "done"]
    /\ completion_order' = Append(completion_order, executor[w])
    /\ executor' = [executor EXCEPT ![w] = 0]
    /\ UNCHANGED <<ppc, next_task, check_results, valid_indices,
                   paths_by_index>>

\* lines 98-102: list() takes the next result from the iterator
CollectResult ==
    /\ UNCHANGED outsidePreload
    /\ ppc = "mapping"
    /\ \E k \in yield_in_order(futures,
                               {check_results[j].task : j \in 1..Len(check_results)}) :
          check_results' = Append(check_results,
                                  [task |-> k, result |-> check_result(master, k)])
    /\ UNCHANGED <<ppc, next_task, executor, futures, valid_indices,
                   paths_by_index, completion_order>>

\* lines 97-102: the list is complete and the with block is left
LeavePool ==
    /\ UNCHANGED outsidePreload
    /\ ppc = "mapping"
    /\ Len(check_results) = Len(df_images(master))
    /\ ppc' = "filtering"
    /\ UNCHANGED <<next_task, executor, futures, check_results, valid_indices,
                   paths_by_index, completion_order>>

\* lines 104-114: the loop over results, and the return
FilterValid ==
    /\ UNCHANGED outsidePreload
    /\ ppc = "filtering"
    /\ LET valid == SelectSeq(check_results, LAMBDA r : r.result.is_valid)
       IN /\ valid_indices' = [k \in 1..Len(valid) |-> valid[k].result.index]
          /\ paths_by_index' = [k \in 1..Len(valid) |->
                                   <<valid[k].result.index, valid[k].result.path>>]
    /\ ppc' = "returned"
    /\ UNCHANGED <<next_task, executor, futures, check_results,
                   completion_order>>

NextPreload ==
    \/ \E w \in Workers : WorkerTakes(w)
    \/ \E w \in Workers : WorkerFinishes(w)
    \/ CollectResult
    \/ LeavePool
    \/ FilterValid

(***************************************************************************)
(* The local image path of a master-table row: download_all_images.py      *)
(* lines 45-68, check_image_path (generate_clip_categorized_data.py lines  *)
(* 81-94) and create_embedding_indices_debug.py lines 23-35.               *)
(***************************************************************************)
\* the characters of a URL that os.path.splitext and the test for a query
\* tell apart: the separator, the dot, the question mark, and a letter
Chars == {"/", ".", "?", "j"}

Strings(n) == UNION {[1..len -> Chars] : len \in 1..n}

\* a field of a row read by pd.read_csv: a string, or NaN for an empty field
Str(s) == [isna |-> FALSE, str |-> s]

NaN == [isna |-> TRUE, str |-> <<>>]

\* bool(v): NaN is a float other than 0.0, hence true
truthy(v) == v.isna \/ Len(v.str) > 0

\* a or b
Or(a, b) == IF truthy(a) THEN a ELSE b

\* str.rfind, counted from 1 (0: not found)
rfind(p, c) ==
    IF \E k \in 1..Len(p) : p[k] = c
    THEN CHOOSE k \in 1..Len(p) :
             p[k] = c /\ \A later \in (k + 1)..Len(p) : p[later] # c
    ELSE 0

\* os.path.splitext(p) of a str (genericpath._splitext): the extension starts
\* at the last dot of the last path component, leading dots not counted
splitext(p) ==
    LET sepIndex == rfind(p, "/")
        dotIndex == rfind(p, ".")
    IN IF dotIndex > sepIndex
          /\ \E k \in (sepIndex + 1)..(dotIndex - 1) : p[k] # "."
       THEN <<SubSeq(p, 1, dotIndex - 1), SubSeq(p, dotIndex, Len(p))>>
       ELSE <<p, <<>>>>

\* ".jpg"
JPG == <<".", "j", "p", "g">>

\* os.path.join(IMAGE_DIR, f"{date}{file_extension}")
join_image_dir(date, file_extension) == <<"images/", date, file_extension>>

NotDerived == [kind |-> "pending"]

\* os.path.splitext raises TypeError on a float
TypeError == [kind |-> "TypeError"]

\* download_all_images.py lines 46-61: the row is skipped (continue, line
\* 51), or local_file_path
local_file_path(row) ==
    LET image_url == Or(row.hdurl, row.url)
    IN IF image_url.isna THEN [kind |-> "skipped"]
       ELSE LET ext == splitext(image_url.str)[2]
                file_extension == IF ext = <<>> \/ "?" \in Range(ext)
                                  THEN JPG ELSE ext
            IN [kind |-> "path",
                path |-> join_image_dir(row.date, file_extension)]

\* generate_clip_categorized_data.py lines 82-89: local_image_path of
\* check_image_path
preload_image_path(row) ==
    LET image_url == Or(row.hdurl, row.url)
    IN IF image_url.isna THEN TypeError
       ELSE LET ext == IF splitext(image_url.str)[2] # <<>>
                       THEN splitext(image_url.str)[2] ELSE JPG
                file_extension == IF "?" \in Range(ext) THEN JPG ELSE ext
            IN [kind |-> "path",
                path |-> join_image_dir(row.date, file_extension)]

\* create_embedding_indices_debug.py lines 24-30: local_image_path
index_image_path(row) ==
    LET image_url == Or(row.hdurl, row.url)
    IN IF image_url.isna THEN TypeError
       ELSE LET ext == IF splitext(image_url.str)[2] # <<>>
                       THEN splitext(image_url.str)[2] ELSE JPG
                file_extension == IF "?" \in Range(ext) THEN JPG ELSE ext
            IN [kind |-> "path",
                path |-> join_image_dir(row.date, file_extension)]

PathsNotCalled ==
    /\ path_row = [date |-> 1, hdurl |-> NaN, url |-> NaN]
    /\ image_dir = {}
    /\ downloaded = NotDerived
    /\ preloaded = NotDerived
    /\ indexed = NotDerived

\* a row of the master table whose media_type is image and whose url is
\* there (the rows without url are dropped at lines 314 and 18); hdurl is a
\* string, or NaN when the API gave none (process_apod.py line 185 writes
\* '' for it); IMAGE_DIR is empty
InitPaths ==
    /\ path_row \in [date : {1},
                     hdurl : {NaN} \cup {Str(s) : s \in Strings(MaxUrlLen)},
                     url : {Str(s) : s \in Strings(MaxUrlLen - 1)}]
    /\ image_dir = {}
    /\ downloaded = NotDerived
    /\ preloaded = NotDerived
    /\ indexed = NotDerived

\* download_all_images.py lines 45-68: one round of the loop; ok: what
\* download_image returned
DownloadRow ==
    /\ UNCHANGED outsidePaths
    /\ downloaded = NotDerived
    /\ LET local == local_file_path(path_row)
       IN /\ downloaded' = local
          /\ IF local.kind = "path" /\ local.path \notin image_dir
             THEN \E ok \in BOOLEAN :
                      image_dir' = IF ok THEN image_dir \cup {local.path}
                                   ELSE image_dir
             ELSE UNCHANGED image_dir
    /\ UNCHANGED <<path_row, preloaded, indexed>>

\* generate_clip_categorized_data.py lines 81-94: check_image_path
CheckImagePath ==
    /\ UNCHANGED outsidePaths
    /\ preloaded = NotDerived
    /\ LET local == preload_image_path(path_row)
       IN preloaded' = IF local.kind = "path"
                       THEN [kind |-> "path", path |-> local.path,
                             is_valid |-> local.path \in image_dir]
                       ELSE local
    /\ UNCHANGED <<path_row, image_dir, downloaded, indexed>>

\* create_embedding_indices_debug.py lines 23-35: one round of the loop
IndexRow ==
    /\ UNCHANGED outsidePaths
    /\ indexed = NotDerived
    /\ LET local == index_image_path(path_row)
       IN indexed' = IF local.kind = "path"
                     THEN [kind |-> "path", path |-> local.path,
                           is_valid |-> local.path \in image_dir]
                     ELSE local
    /\ UNCHANGED <<path_row, image_dir, downloaded, preloaded>>

NextPaths ==
    \/ DownloadRow
    \/ CheckImagePath
    \/ IndexRow

InitOfMaster ==
    InitMaster /\ ClipNotStarted /\ InitFetch /\ MetricsNotCalled
        /\ ClassifyNotCalled /\ PreloadNotCalled /\ PathsNotCalled

InitOfClip ==
    InitClip /\ InitMaster /\ InitFetch /\ MetricsNotCalled
        /\ ClassifyNotCalled /\ PreloadNotCalled /\ PathsNotCalled

InitOfFetch ==
    InitFetch /\ InitMaster /\ ClipNotStarted /\ MetricsNotCalled
        /\ ClassifyNotCalled /\ PreloadNotCalled /\ PathsNotCalled

InitOfMetrics ==
    InitMetrics /\ InitMaster /\ ClipNotStarted /\ InitFetch
        /\ ClassifyNotCalled /\ PreloadNotCalled /\ PathsNotCalled

InitOfClassify ==
    InitClassify /\ InitMaster /\ ClipNotStarted /\ InitFetch
        /\ MetricsNotCalled /\ PreloadNotCalled /\ PathsNotCalled

\* the run that calls preload_valid_images is at line 319
InitOfPreload ==
    InitPreload /\ phase = "validating" /\ batch_files = CleanBatchFiles
        /\ final_files = CleanFinalFiles /\ ClipLocals /\ InitMaster
        /\ InitFetch /\ MetricsNotCalled /\ ClassifyNotCalled
        /\ PathsNotCalled

InitOfPaths ==
    InitPaths /\ InitMaster /\ ClipNotStarted /\ InitFetch /\ MetricsNotCalled
        /\ ClassifyNotCalled /\ PreloadNotCalled

SpecMaster == InitOfMaster /\ [][NextMaster]_vars

SpecClip == InitOfClip /\ [][NextClip]_vars

SpecFetch == InitOfFetch /\ [][NextFetch]_vars

SpecMetrics == InitOfMetrics /\ [][NextMetrics]_vars

SpecClassify == InitOfClassify /\ [][NextClassify]_vars

SpecPreload == InitOfPreload /\ [][NextPreload]_vars

SpecPaths == InitOfPaths /\ [][NextPaths]_vars

\* every step of fetch_apod_data ends: the sleeps are finite and session.get
\* answers or raises within its timeout
FetchStep ==
    \/ BeginAttempt
    \/ On200
    \/ On429
    \/ On404
    \/ OnOtherStatus
    \/ OnTimeout
    \/ OnConnectionError
    \/ OnRequestException
    \/ GiveUp

FairSpecFetch == SpecFetch /\ WF_vars(FetchStep)

(***************************************************************************)
(* Properties of create_master_dataset (SpecMaster).                       *)
(***************************************************************************)
\* an uninterrupted run has reached its end
RunComplete == pc = "done" /\ runs >= 1 /\ ~interrupted

\* the API answered this run as it answered the previous one
SameResponses ==
    \A d \in Dates :
        (api[d] # "unknown" /\ prevApi[d] # "unknown") => api[d] = prevApi[d]

\* C5: a second complete run over the same range, the API answering every
\* date as in the first run, adds no row and leaves the master file as the
\* first run left it, whatever the fetch outcomes of the first run were.
C5_SecondRunChangesNothing ==
    (RunComplete /\ runs >= 2 /\ prevClean /\ SameResponses)
        => (file = fileAtStart /\ written = <<>>)

\* C6: no date that has a row in the file at start-up is fetched; a complete
\* run fetches exactly the dates of the range absent from the file; when no
\* date is absent the run makes no request and no write.
C6_FetchesOnlyAbsentDates ==
    /\ \A d \in Range(fetched) : d \notin DatesInFile(fileAtStart)
    /\ RunComplete => Range(fetched) = Dates \ DatesInFile(fileAtStart)
    /\ (runs >= 1 /\ Dates \subseteq DatesInFile(fileAtStart))
           => (fetched = <<>> /\ written = <<>> /\ file = fileAtStart)

\* C7: after any sequence of runs no date is on more than one row of the
\* master table.
C7_DateIsUniqueKey ==
    \A d \in Dates : Count(file.lines, Row(d)) <= 1

\* C8: starting with no output file, the header is written exactly once, as
\* the first line, by the write that creates the file, and no later write
\* removes rows that are in the file.
C8_HeaderOnceAppendOnly ==
    file.exists =>
        /\ hdrWrites = 1
        /\ file.lines # <<>>
        /\ Head(file.lines) = Header
        /\ Count(file.lines, Header) = 1
        /\ ~truncated

\* C9: at the end of an uninterrupted run every date to process was fetched,
\* and each has exactly one of two outcomes: a record was returned and exactly
\* one row for it was written and is in the file, or the fetch failed, the
\* date is in failed_dates and no row was written for it.
C9_OneOutcomePerDate ==
    RunComplete =>
        /\ fetched = dates_to_process
        /\ processed_count = Len(dates_to_process)
        /\ \A d \in Range(dates_to_process) :
              \/ /\ api[d] = "ok"
                 /\ Count(written, Row(d)) = 1
                 /\ Count(failed_dates, d) = 0
                 /\ Row(d) \in Range(file.lines)
              \/ /\ api[d] \in {"notfound", "exhausted"}
                 /\ Count(failed_dates, d) = 1
                 /\ Count(written, Row(d)) = 0

\* a complete run in which a fetch failed and a later date was still fetched
\* and written
C9_Witness ==
    /\ RunComplete
    /\ \E i, j \in 1..Len(fetched) :
          /\ i < j
          /\ api[fetched[i]] # "ok"
          /\ api[fetched[j]] = "ok"
          /\ Row(fetched[j]) \in Range(written)

\* C10: when the run ends by KeyboardInterrupt, every record that had been
\* appended to batch_data is in the master file.
C10_InterruptKeepsBuffered ==
    (pc = "done" /\ interrupted) =>
        \A r \in Range(buffered) : r \in Range(file.lines)

\* an interrupted run whose batch held records when the interrupt arrived
C10_Witness ==
    /\ pc = "done"
    /\ interrupted
    /\ batch_data # <<>>
    /\ Len(buffered) > Len(batch_data)

(***************************************************************************)
(* Properties of generate_clip_categorized_data (SpecClip).                *)
(***************************************************************************)
\* the items for which process_batch returned embeddings in this run
Embedded ==
    {results[k].date : k \in {j \in 1..Len(results) :
                                results[j].predicted_category # SKIPPED}}

\* the rows of a consolidated array; an array that is not on disk has none
FinalRows(f) == final_files[f].rows

\* C1: after a completed run the four consolidated embedding arrays and the
\* consolidated index array embedding_indices have the same number of rows,
\* and entry i of the index array is the item whose embeddings are at row i
\* of the four arrays (stated for the runs that embedded at least one item).
C1_ArraysAlignedWithIndex ==
    (phase = "done" /\ Embedded # {}) =>
        \A t \in EmbTypes :
            /\ final_files["embedding_indices"].exists
            /\ Len(FinalRows(t)) = Len(FinalRows("embedding_indices"))
            /\ \A i \in 1..Len(FinalRows(t)) :
                  /\ FinalRows(t)[i].type = t
                  /\ FinalRows(t)[i].item = FinalRows("embedding_indices")[i]

\* checkpoints 0..n-1 of every kind are on disk
CheckpointsPresent(n) ==
    \A f \in BatchFileNames : f[2] < n => batch_files[f].exists

\* the rows of checkpoints 0..n-1 of one kind, in ascending checkpoint number
RECURSIVE CheckpointRows(_, _)
CheckpointRows(kind, n) ==
    IF n = 0 THEN <<>>
    ELSE CheckpointRows(kind, n - 1) \o batch_files[<<kind, n - 1>>].rows

RECURSIVE CheckpointSizes(_, _)
CheckpointSizes(kind, n) ==
    IF n = 0 THEN 0
    ELSE CheckpointSizes(kind, n - 1) + Len(batch_files[<<kind, n - 1>>].rows)

ConsolidationStep == phase = "consolidating" /\ phase' = "writing"

\* C2: given checkpoints 0..N-1, consolidation writes for each of the four
\* kinds one array that is the concatenation of the kind's checkpoints in
\* ascending number, sum(checkpoint sizes) rows, each checkpoint row exactly
\* once; afterwards no checkpoint file numbered 0..N-1, embedding or index,
\* is on disk.
C2_ConsolidationConcatenates ==
    [][(ConsolidationStep /\ batch_counter >= 1 /\ CheckpointsPresent(batch_counter))
        => \A t \in EmbTypes :
             /\ final_files'[t].exists
             /\ final_files'[t].rows = CheckpointRows(t, batch_counter)
             /\ Len(final_files'[t].rows) = CheckpointSizes(t, batch_counter)
             /\ \A r \in Range(CheckpointRows(t, batch_counter)) :
                   Count(final_files'[t].rows, r) = 1
             /\ \A n \in 0..(batch_counter - 1) :
                   /\ ~batch_files'[<<t, n>>].exists
                   /\ ~batch_files'[<<"indices", n>>].exists]_vars

\* a consolidation of at least two checkpoints of different sizes has just
\* taken place
C2_Witness ==
    /\ phase = "writing"
    /\ batch_counter >= 2
    /\ Len(FinalRows("title_embeddings")) >= 3
    /\ Len(FinalRows("title_embeddings")) % 2 = 1
    /\ \A t \in EmbTypes : FinalRows(t)[1].item # 0
    /\ \A f \in BatchFileNames : f[2] < batch_counter => ~batch_files[f].exists

\* C3: the categorized table has exactly one row for every row of the master
\* table, in the row order of the master table.
C3_OneRowPerMasterRow ==
    phase = "done" =>
        /\ Len(output) = NRows
        /\ \A i \in 1..Len(output) : output[i].date = i

\* C4: every image entry that produced no embedding (its file was missing at
\* validation, its image failed to decode, or its batch failed) is in the
\* categorized table with the category Skipped_Image_Not_Found and the
\* confidence 0.
C4_UnembeddedAreSkipped ==
    phase = "done" =>
        \A i \in Rows :
            (IsImageEntry(master[i]) /\ i \notin Embedded) =>
                \E k \in 1..Len(output) :
                    output[k] = [date |-> i, predicted_category |-> SKIPPED,
                                 confidence_score |-> 0]

(***************************************************************************)
(* Properties of create_master_dataset, continued: checked under           *)
(* SpecMaster.                                                             *)
(***************************************************************************)
\* the dates of the data rows of the file never go down
Chronological(f) ==
    \A i, j \in 1..Len(DataRows(f)) :
        i < j => DataRows(f)[i].date <= DataRows(f)[j].date

\* C11: after any sequence of runs of create_master_dataset, none of them
\* interrupted, the rows of the master table are in chronological (ascending
\* date) order.
C11_RowsChronological ==
    (RunComplete /\ (runs >= 2 => prevClean)) => Chronological(file)

(***************************************************************************)
(* Properties of fetch_apod_data and of the RateLimiter (SpecFetch).       *)
(***************************************************************************)
\* the call got 429 three times in a row, from its first request on, and
\* then 200
Three429Then200 ==
    fpc = "returned" /\ status = "200" /\ n429 = 3 /\ attempt = 3

\* the three retries came after longer and longer waits
WaitsIncrease ==
    Len(waits) = 3 /\ waits[1] < waits[2] /\ waits[2] < waits[3]

\* C12 as stated: given three consecutive 429 responses followed by a 200
\* for one date, fetch_apod_data has issued exactly 4 requests, the waits
\* before the three retries strictly increase, and consecutive_429s is 0
\* after the 200.
C12_Original ==
    Three429Then200
        => (requests = 4 /\ WaitsIncrease /\ consecutive_429s = 0)

\* C12: given three consecutive 429 responses followed by a 200 for one
\* date, on a RateLimiter whose consecutive_429s was at most 6 when
\* fetch_apod_data was called (0 for a fresh one), fetch_apod_data has issued
\* exactly 4 requests, the waits before the three retries strictly increase,
\* and consecutive_429s is 0 after the 200.  (From 7 on, the second and the
\* third wait are both max_delay plus what is left of the jitter.)
C12_BackoffOfThree429s ==
    (Three429Then200 /\ entry_429s <= 6)
        => (requests = 4 /\ WaitsIncrease /\ consecutive_429s = 0)

C12_Witness ==
    Three429Then200 /\ entry_429s = 0 /\ waits = <<20, 42, 80>>

\* the call returned without a 200 and without a 404: its attempts are used up
Exhausted == fpc = "returned" /\ status \notin {"200", "404"}

\* C13: for every sequence of responses (429, other error statuses,
\* timeouts, connection errors) a call of fetch_apod_data returns, it has
\* issued at most RETRY_ATTEMPTS requests for the date, and when all the
\* attempts are used up it has returned None.
C13_ReturnsWithinRetryAttempts ==
    /\ [](requests <= RETRY_ATTEMPTS)
    /\ [](Exhausted => (requests = RETRY_ATTEMPTS /\ fetch_result = "None"))
    /\ (fpc \in {"loop", "sent"} ~> fpc = "returned")

C13_Witness ==
    /\ Exhausted
    /\ requests = RETRY_ATTEMPTS
    /\ n429 = 2
    /\ status = "connection"
    /\ fetch_result = "None"

\* C14: on HTTP 404 fetch_apod_data returns at once, making no further
\* request for the date, and what it returns tells the caller the cause: two
\* calls that returned the same value ended for the same cause, so that a
\* date that was not found is never reported as a date whose retries were
\* used up.
C14_NotFoundToldApart ==
    /\ status = "404" => fpc = "returned"
    /\ \A p, q \in reported : p[2] = q[2] => p[1] = q[1]

(***************************************************************************)
(* Properties of the ranking metrics (SpecMetrics).                        *)
(***************************************************************************)
\* the call got lists of one length, and at least one item
EqualNonEmpty ==
    /\ Len(arg_predictions) = Len(arg_ground_truth)
    /\ Len(arg_predictions) > 0

\* the items whose true label is among the first n entries of their list
TopNHits ==
    {i \in 1..Len(arg_predictions) :
        \E j \in 1..arg_n :
            /\ j <= Len(arg_predictions[i])
            /\ arg_predictions[i][j] = arg_ground_truth[i]}

\* C15: for equal-length non-empty inputs and every n >= 1,
\* calculate_top_n_accuracy returns the number of items whose true label is
\* among the first n entries of their ranked list, divided by the number of
\* items; [[b,a]] against [a] gives 0.0 for n = 1 and 1.0 for n = 2.
C15_TopNAccuracyIsHitRate ==
    (metric_called = "calculate_top_n_accuracy" /\ EqualNonEmpty)
        => /\ metric_result
                  = Value(Cardinality(TopNHits), Len(arg_predictions))
           /\ (arg_predictions = << <<"b", "a">> >> /\ arg_ground_truth = <<"a">>)
                  => /\ arg_n = 1 => metric_result = Value(0, 1)
                     /\ arg_n = 2 => metric_result = Value(1, 1)

C15_Witness ==
    /\ metric_called = "calculate_top_n_accuracy"
    /\ arg_predictions = << <<"b", "a">> >>
    /\ arg_ground_truth = <<"a">>
    /\ arg_n = 2
    /\ metric_result = Value(1, 1)

\* the 1-based position of the first occurrence of x in a ranked list that
\* holds it
FirstRank(ranked, x) ==
    CHOOSE r \in 1..Len(ranked) :
        ranked[r] = x /\ \A q \in 1..(r - 1) : ranked[q] # x

\* 1 / rank of item i in RankUnits-th parts, 0 when its true label is absent
ReciprocalRank(i) ==
    IF \E j \in 1..Len(arg_predictions[i]) :
           arg_predictions[i][j] = arg_ground_truth[i]
    THEN RankUnits \div FirstRank(arg_predictions[i], arg_ground_truth[i])
    ELSE 0

RECURSIVE ReciprocalRankSum(_)
ReciprocalRankSum(i) ==
    IF i = 0 THEN 0 ELSE ReciprocalRankSum(i - 1) + ReciprocalRank(i)

\* C16: calculate_mrr returns the average over the items of 1 / rank, rank
\* being the 1-based position of the first occurrence of the true label in
\* the item's list, an item without its true label counting 0; when no list
\* holds its true label the result is the number 0, not an error.
C16_MrrIsMeanReciprocalRank ==
    (metric_called = "calculate_mrr" /\ EqualNonEmpty)
        => /\ metric_result
                  = Value(ReciprocalRankSum(Len(arg_predictions)),
                          RankUnits * Len(arg_predictions))
           /\ (\A i \in 1..Len(arg_predictions) : ReciprocalRank(i) = 0)
                  => (metric_result.kind = "value" /\ metric_result.num = 0)

C16_Witness ==
    /\ metric_called = "calculate_mrr"
    /\ arg_predictions = << <<"b", "a">>, <<"b", "b">> >>
    /\ arg_ground_truth = <<"a", "a">>
    /\ metric_result.kind = "value"
    /\ 4 * metric_result.num = metric_result.den

\* C17: for equal-length non-empty inputs and every k >= 1,
\* calculate_precision_at_k returns what calculate_top_n_accuracy returns
\* for n = k, also when a ranked list is shorter than k.
C17_PrecisionAtKIsTopNAccuracy ==
    (metric_called = "calculate_precision_at_k" /\ EqualNonEmpty)
        => /\ metric_result.kind = "value"
           /\ metric_result = calculate_top_n_accuracy(
                                  arg_predictions, arg_ground_truth, arg_n)

C17_Witness ==
    /\ metric_called = "calculate_precision_at_k"
    /\ arg_predictions = << <<"a">>, <<>> >>
    /\ arg_ground_truth = <<"a", "b">>
    /\ arg_n = 2
    /\ metric_result = Value(1, 2)

\* C18: each of the three metrics raises ValueError, and so returns no
\* value, whenever predictions and ground_truth differ in length, whatever
\* n or k is.
C18_LengthMismatchRaises ==
    (metric_called # "none" /\ Len(arg_predictions) # Len(arg_ground_truth))
        => metric_result = ValueError

C18_Witness ==
    /\ metric_called = "calculate_precision_at_k"
    /\ Len(arg_predictions) = 1
    /\ Len(arg_ground_truth) = 2
    /\ arg_n = 3
    /\ metric_result = ValueError

(***************************************************************************)
(* Properties of the classification (SpecClassify).                        *)
(***************************************************************************)
\* the labels of a result are the candidate labels, each exactly once
IsPermutationOfLabels(result) ==
    /\ Len(result.labels) = Len(candidate_labels)
    /\ \A k \in 1..Len(candidate_labels) :
           Count(result.labels, candidate_labels[k]) = 1

\* the scores of a result never go up along the list
ScoresNonIncreasing(result) ==
    \A a, b \in 1..Len(result.scores) :
        a < b => result.scores[a] >= result.scores[b]

\* entry j of the scores is the score that label j got
ScoresBelongToLabels(result, scores) ==
    /\ Len(result.scores) = Len(result.labels)
    /\ \A j \in 1..Len(result.labels) :
           \A k \in 1..Len(candidate_labels) :
               candidate_labels[k] = result.labels[j]
                   => result.scores[j] = scores[k]

\* C19: for every text and every label list without duplicates, the result
\* of classify_embedding_method and the ranking built in process_batch list
\* every input label exactly once, with scores that never go up along the
\* list, score j being the score of label j.
C19_RankingIsSortedPermutation ==
    method \in {"embedding", "clip"}
        => \A i \in 1..Len(classify_results) :
               /\ IsPermutationOfLabels(classify_results[i])
               /\ ScoresNonIncreasing(classify_results[i])
               /\ ScoresBelongToLabels(classify_results[i], similarities[i])

C19_Witness ==
    /\ method = "embedding"
    /\ classify_returned
    /\ candidate_labels = APOD_LABELS
    /\ Len(texts) = 2
    /\ similarities[1] = <<1, 0, 2>>
    /\ classify_results[1].labels = <<"Planet", "Galaxy", "Nebula">>
    /\ classify_results[1].scores = <<2, 1, 0>>
    /\ similarities[2] = <<1, 1, 0>>

\* C20: classify_batch returns exactly one result per input text, in input
\* order, for every strategy and every batch_size from 1 on, also when the
\* zero-shot pipeline answers a batch with a single result instead of a list.
C20_OneResultPerText ==
    (classify_returned /\ method \in Methods)
        => /\ Len(classify_results) = Len(texts)
           /\ \A i \in 1..Len(texts) : classify_results[i].sequence = texts[i]

C20_Witness ==
    /\ classify_returned
    /\ method = "small_zeroshot"
    /\ Len(texts) = 2
    /\ batch_size = 1
    /\ single_results = 1
    /\ Len(classify_results) = 2

(***************************************************************************)
(* Properties of generate_clip_categorized_data, continued: checked under  *)
(* SpecClip.                                                               *)
(***************************************************************************)
\* the rows of results whose (date, title) is the key of a ground truth row
Matched ==
    {k \in 1..Len(results) :
        \E j \in 1..Len(ground_truth_df.rows) :
            /\ ground_truth_df.rows[j].date = results[k].date
            /\ ground_truth_df.rows[j].title = title_of(results[k].date)}

\* the denominators of the four metrics
CountedItems ==
    <<semantic_metrics.top1_accuracy.den, semantic_metrics.top3_accuracy.den,
      semantic_metrics.precision_at_1.den,
      semantic_metrics.mrr.den \div RankUnits>>

\* C21: the evaluation takes place only when the ground truth file exists;
\* the joined table holds exactly the categorized rows whose (date, title)
\* is the key of a ground truth row; every metric is computed over these rows
\* alone, and a run that has categorized rows is never ended by the
\* evaluation.
C21_EvaluationJoinsOnDateTitle ==
    /\ (semantic_metrics.exists \/ merged_df # <<>>) => ground_truth_df.exists
    /\ (phase = "done" /\ ground_truth_df.exists) =>
          /\ Len(merged_df) = Cardinality(Matched)
          /\ {<<merged_df[k].date, merged_df[k].title>> : k \in 1..Len(merged_df)}
                = {<<results[k].date, title_of(results[k].date)>> : k \in Matched}
          /\ semantic_metrics.exists <=> Matched # {}
          /\ semantic_metrics.exists =>
                /\ Len(predictions_for_metrics) = Cardinality(Matched)
                /\ \A i \in 1..4 : CountedItems[i] = Cardinality(Matched)
    /\ (phase = "aborted" /\ error \notin {"OSError", "KeyboardInterrupt"})
          => results = <<>>

\* an evaluation has written the metrics of a run of which one categorized
\* row has no ground truth row, one has a ground truth row with another
\* title, and one has a ground truth row with its title
C21_Witness ==
    /\ phase = "done"
    /\ semantic_metrics.exists
    /\ Cardinality(Matched) = 1
    /\ Len(results) >= 3
    /\ \E j \in 1..Len(ground_truth_df.rows) :
          /\ ground_truth_df.rows[j].title = OtherTitle
          /\ \E k \in 1..Len(results) :
                results[k].date = ground_truth_df.rows[j].date

\* C22: every checkpoint written during a run holds at most
\* SAVE_EMBEDDINGS_EVERY embedding records.
C22_CheckpointAtMostSaveEvery ==
    \A f \in BatchFileNames :
        (f[2] < batch_counter /\ batch_files[f].exists) =>
            Len(batch_files[f].rows) <= SAVE_EMBEDDINGS_EVERY

\* checkpoint n has all its files, or lacks one of them
CheckpointPresent(files, n) ==
    \A f \in BatchFileNames : f[2] = n => files[f].exists

\* a checkpoint with a number strictly between two checkpoints that are on
\* disk is missing
InternalGap(files, total_batches) ==
    \E a, b, c \in 0..(total_batches - 1) :
        /\ a < b /\ b < c
        /\ CheckpointPresent(files, a)
        /\ ~CheckpointPresent(files, b)
        /\ CheckpointPresent(files, c)

\* C23: when a checkpoint with a number strictly between two existing
\* checkpoints is missing at consolidation, consolidate_embedding_batches
\* raises or emits a warning instead of silently writing a unified array.
C23_InternalGapIsReported ==
    [][(phase = "consolidating" /\ phase' # phase
            /\ InternalGap(batch_files, batch_counter))
        => \/ error' # "none"
           \/ warnings' # {}
           \/ final_files' = final_files]_vars

\* an iteration of the batch loop has gone through without a write error
BatchProcessed == phase = "streaming" /\ bi' # bi

\* C24: when the model calls of a batch raise in process_batch, the batch
\* contributes no classification result, no embedding and no ranked
\* prediction, the buffer, the results and the checkpoints of the earlier
\* batches are unchanged, and the loop goes on to the next batch, or to the
\* end of the run when the batch was the last.
C24_FailedBatchContributesNothing ==
    [][(BatchProcessed /\ last_batch'.raised) =>
          /\ last_batch'.returned.results = <<>>
          /\ BatchLen(last_batch'.returned.embedding_batch) = 0
          /\ last_batch'.returned.top_k = <<>>
          /\ results' = results
          /\ all_top_k_predictions' = all_top_k_predictions
          /\ current_embedding_batch' = current_embedding_batch
          /\ batch_files' = batch_files
          /\ batch_counter' = batch_counter
          /\ error' = "none"
          /\ bi' = bi + CLIP_BATCH_SIZE
          /\ phase' = IF bi' < Len(df_valid) THEN "streaming" ELSE "remaining"]_vars

\* the second batch of a run has raised, after a first batch that left
\* results and a buffered embedding, and a third batch is still to come
C24_Witness ==
    /\ phase = "streaming"
    /\ last_batch.raised
    /\ bi = 2 * CLIP_BATCH_SIZE
    /\ bi < Len(df_valid)
    /\ results # <<>>
    /\ BatchLen(current_embedding_batch) > 0

\* C25: when writing a checkpoint file fails, the error ends the run: no
\* later batch is processed, no consolidation takes place (no consolidated
\* array is written and no checkpoint is removed), and neither the
\* categorized table nor the metrics are written.
C25_CheckpointWriteErrorEndsRun ==
    /\ [](error = "OSError" =>
            /\ phase = "aborted"
            /\ final_files \in {CleanFinalFiles, StaleFinalFiles}
            /\ \A n \in 0..(batch_counter - 1) : CheckpointPresent(batch_files, n)
            /\ output = <<>>
            /\ ~semantic_metrics.exists)
    /\ [][error = "OSError" => UNCHANGED clipVars]_vars

\* the write of the indices file of checkpoint 1 has failed after the four
\* embedding files were written, with a batch still to be processed
C25_Witness ==
    /\ error = "OSError"
    /\ phase = "aborted"
    /\ batch_counter = 1
    /\ bi + CLIP_BATCH_SIZE < Len(df_valid)
    /\ \A t \in EmbTypes :
          /\ batch_files[<<t, 1>>].exists
          /\ batch_files[<<t, 1>>].rows = current_embedding_batch[t]
    /\ ~batch_files[<<"indices", 1>>].exists

\* the place of a position of generate_clip_categorized_data in the order
\* VALIDATING (1), PREPARING_LABEL_EMBEDDINGS (2), STREAMING_BATCHES (3: the
\* batch loop, the flush of the remaining buffer and the skipped entries),
\* CONSOLIDATING (4: the consolidation and the categorized table),
\* EVALUATING (5), DONE (6)
PhaseRank(ph) ==
    CASE ph = "validating" -> 1
      [] ph = "labels" -> 2
      [] ph \in {"streaming", "remaining", "skipped"} -> 3
      [] ph \in {"consolidating", "writing"} -> 4
      [] ph = "evaluating" -> 5
      [] ph = "done" -> 6
      [] OTHER -> 7

\* the rows of one kind of checkpoints 0..n-1 of a directory
RECURSIVE RowsOfCheckpoints(_, _, _)
RowsOfCheckpoints(files, kind, n) ==
    IF n = 0 THEN <<>>
    ELSE RowsOfCheckpoints(files, kind, n - 1) \o files[<<kind, n - 1>>].rows

\* the items that were embedded, in the order of their embedding
EmbeddedItems(rs) ==
    LET kept == SelectSeq(rs, LAMBDA r : r.predicted_category # SKIPPED)
    IN [k \in 1..Len(kept) |-> kept[k].date]

\* C26: a run goes through VALIDATING, PREPARING_LABEL_EMBEDDINGS,
\* STREAMING_BATCHES, CONSOLIDATING, EVALUATING and DONE in this order,
\* leaving none out unless an error ends it; no batch is embedded before
\* validation and label embedding are finished; consolidation starts only
\* after the last batch was processed and every embedding, the remaining
\* buffer included, is in a checkpoint; evaluation starts only after the
\* consolidation has removed the checkpoints.
C26_PhasesInOrder ==
    /\ [][phase' # phase =>
            \/ PhaseRank(phase') = 7
            \/ PhaseRank(phase') \in {PhaseRank(phase), PhaseRank(phase) + 1}]_vars
    /\ [](PhaseRank(phase) < 3 =>
            /\ results = <<>>
            /\ last_batch = NoBatch
            /\ BatchLen(current_embedding_batch) = 0
            /\ batch_counter = 0)
    /\ [](phase = "streaming" => df_valid = preload_valid_images(master))
    /\ [][(PhaseRank(phase) = 3 /\ PhaseRank(phase') = 4) =>
            /\ bi' >= Len(df_valid')
            /\ \A t \in EmbTypes :
                  RowsOfCheckpoints(batch_files', t, batch_counter')
                     = [k \in 1..Len(EmbeddedItems(results')) |->
                           Emb(t, EmbeddedItems(results')[k])]
            /\ RowsOfCheckpoints(batch_files', "indices", batch_counter')
                  = EmbeddedItems(results')]_vars
    /\ [](PhaseRank(phase) \in {5, 6} =>
            \A f \in BatchFileNames : f[2] < batch_counter => ~batch_files[f].exists)

\* a run with two checkpoints has gone through every phase, the evaluation
\* with a ground truth file included
C26_Witness ==
    /\ phase = "done"
    /\ batch_counter = 2
    /\ semantic_metrics.exists
    /\ Len(output) >= 3

\* the positions of an item in the index list process_batch returned
PositionsOf(item) ==
    {p \in 1..BatchLen(last_batch.returned.embedding_batch) :
        last_batch.returned.embedding_batch.indices[p] = item}

\* the item is in none of the lists process_batch returned
AbsentFromBatch(item) ==
    /\ PositionsOf(item) = {}
    /\ \A t \in EmbTypes :
          \A p \in 1..Len(last_batch.returned.embedding_batch[t]) :
              last_batch.returned.embedding_batch[t][p].item # item
    /\ \A p \in 1..Len(last_batch.returned.results) :
          last_batch.returned.results[p].index # item

\* the item has one position, which holds its four embeddings, its index,
\* its classification and its ranked prediction
WholeInBatch(item) ==
    /\ Cardinality(PositionsOf(item)) = 1
    /\ \A p \in PositionsOf(item) :
          /\ \A t \in EmbTypes :
                last_batch.returned.embedding_batch[t][p] = Emb(t, item)
          /\ last_batch.returned.results[p].index = item
          /\ last_batch.returned.top_k[p] = Ranking(item)
          /\ last_batch.returned.results[p].predicted_category
                = last_batch.returned.top_k[p][1]

\* C27: for every item of a batch process_batch returns either the four
\* embeddings with the item's index, classification and ranked prediction at
\* one position of its lists, or nothing; the lists have one length; an item
\* whose image fails to decode is absent, and the other items of the batch
\* are returned unless the model calls raised.
C27_ItemWholeOrAbsent ==
    /\ \A t \in EmbTypes :
          Len(last_batch.returned.embedding_batch[t])
             = BatchLen(last_batch.returned.embedding_batch)
    /\ Len(last_batch.returned.results)
          = BatchLen(last_batch.returned.embedding_batch)
    /\ Len(last_batch.returned.top_k)
          = BatchLen(last_batch.returned.embedding_batch)
    /\ \A k \in 1..Len(last_batch.batch_data) :
          LET item == last_batch.batch_data[k]
          IN /\ AbsentFromBatch(item) \/ WholeInBatch(item)
             /\ master[item] = "corrupt" => AbsentFromBatch(item)
             /\ (master[item] = "good" /\ ~last_batch.raised)
                   => WholeInBatch(item)

\* process_batch has returned from a batch of one image that fails to decode
\* and one that loads
C27_Witness ==
    /\ Len(last_batch.batch_data) = 2
    /\ master[last_batch.batch_data[1]] = "corrupt"
    /\ master[last_batch.batch_data[2]] = "good"
    /\ ~last_batch.raised
    /\ last_batch.returned.embedding_batch.indices = <<last_batch.batch_data[2]>>

(***************************************************************************)
(* Properties of preload_valid_images: checked under SpecPreload.          *)
(***************************************************************************)
\* C28: whatever the interleaving of the worker threads, preload_valid_images
\* returns the rows of df_images whose local file exists, and only them, in
\* the row order of the master table, and a path map that has exactly these
\* rows as keys, each with its local path.
C28_PreloadIndependentOfInterleaving ==
    ppc = "returned" =>
        /\ valid_indices = preload_valid_images(master)
        /\ \A i \in Rows :
              (\E k \in 1..Len(valid_indices) : valid_indices[k] = i)
                 <=> master[i] \in {"corrupt", "good"}
        /\ \A a, b \in 1..Len(valid_indices) :
              a < b => valid_indices[a] < valid_indices[b]
        /\ Len(paths_by_index) = Len(valid_indices)
        /\ \A k \in 1..Len(paths_by_index) :
              paths_by_index[k]
                 = <<valid_indices[k], local_image_path(valid_indices[k])>>

\* preload_valid_images has returned two or more rows and dropped one, after
\* the thread of a later row finished before the thread of an earlier row
C28_Witness ==
    /\ ppc = "returned"
    /\ Len(valid_indices) >= 2
    /\ Len(valid_indices) < Len(df_images(master))
    /\ \E a, b \in 1..Len(completion_order) :
          /\ a < b
          /\ completion_order[a] > completion_order[b]
          /\ check_result(master, completion_order[a]).is_valid
          /\ check_result(master, completion_order[b]).is_valid

(***************************************************************************)
(* Properties of the RateLimiter and fetch_apod_data, continued: checked   *)
(* under SpecFetch.                                                        *)
(***************************************************************************)
\* the delays the sentence allows for a counter: base_delay when it is 0,
\* otherwise min(base_delay * 2^c, max_delay) plus at most a tenth of it
AllowedDelays(c) ==
    IF c = 0 THEN {BASE_DELAY}
    ELSE LET capped == IF BASE_DELAY * 2^c < MAX_DELAY
                       THEN BASE_DELAY * 2^c ELSE MAX_DELAY
         IN capped..(capped + capped \div 10)

\* wait_before_request has returned and the request is being issued
RequestIssued == fpc = "loop" /\ fpc' = "sent"

\* C29: before each request wait_before_request sleeps what is missing of a
\* delay the sentence allows for the current consecutive_429s; the request
\* is issued at least that delay, hence at least base_delay, after the time
\* stamp of the previous request, and the delay is at most 1.1 * max_delay.
C29_DelayBeforeRequest ==
    [][RequestIssued =>
          \E d \in AllowedDelays(consecutive_429s) :
              /\ slept' - slept = (IF elapsed < d THEN d - elapsed ELSE 0)
              /\ elapsed + (slept' - slept) >= d
              /\ elapsed + (slept' - slept) >= BASE_DELAY
              /\ 10 * d <= 11 * MAX_DELAY]_vars

\* a request is being issued after nine or more 429 responses in a row, the
\* whole of the largest delay, jitter included, having been slept
C29_Witness ==
    /\ fpc = "sent"
    /\ consecutive_429s >= 9
    /\ status = "429"
    /\ slept = MAX_DELAY + MAX_DELAY \div 10

\* a response or an exception of session.get is being handled
ResponseHandled == fpc = "sent" /\ fpc' # "sent"

\* C30: consecutive_429s increases by 1 on each HTTP 429 and becomes 0 on
\* each HTTP 200; nothing else changes it: not a 404, another status code,
\* a timeout, a connection error or another exception of requests, not the
\* wait before a request, not the end of a call, and not the call of
\* fetch_apod_data for the next date.
C30_CounterChangesOn429And200Only ==
    [][/\ (ResponseHandled /\ status' = "429")
            => consecutive_429s' = consecutive_429s + 1
       /\ (ResponseHandled /\ status' = "200") => consecutive_429s' = 0
       /\ (ResponseHandled /\ status' \notin {"429", "200"})
            => consecutive_429s' = consecutive_429s
       /\ ~ResponseHandled => consecutive_429s' = consecutive_429s
       /\ (fpc = "returned" /\ fpc' = "loop")
            => entry_429s' = consecutive_429s /\ api_date' = api_date + 1]_vars

\* the fetch of the second date has returned on a 404 that followed an error
\* of another kind, with the five 429s of the first date still counted
C30_Witness ==
    /\ fpc = "returned"
    /\ api_date = 2
    /\ entry_429s = RETRY_ATTEMPTS
    /\ n429 = 0
    /\ requests >= 2
    /\ status = "404"
    /\ consecutive_429s = RETRY_ATTEMPTS

\* C31: when attempt k (not the last) of fetch_apod_data ended in a timeout
\* or in a connection error, the time slept between that attempt and the
\* request of attempt k + 1 is exactly 2^k seconds.
C31_ErrorBackoffIsTwoToTheAttempt ==
    (fpc = "sent" /\ status \in {"timeout", "connection"} /\ attempt >= 1)
        => slept = 10 * 2^(attempt - 1)


\* the place of a label in the label list given to the classifier
TaxonomyPosition(label) ==
    CHOOSE k \in 1..Len(candidate_labels) : candidate_labels[k] = label

\* C32: in every ranked list returned by the embedding method or computed by
\* process_batch, two labels that got the same score stand in taxonomy
\* order: the label that comes first in the input label list is ranked
\* first.
C32_TiesInTaxonomyOrder ==
    method \in {"embedding", "clip"} =>
        \A i \in 1..Len(classify_results) :
            LET result == classify_results[i]
            IN \A a, b \in 1..Len(result.labels) :
                   (a < b /\ result.scores[a] = result.scores[b])
                       => TaxonomyPosition(result.labels[a])
                              < TaxonomyPosition(result.labels[b])


\* the items whose embeddings a checkpoint on disk holds
CheckpointedItems ==
    UNION {Range(batch_files[<<"indices", n>>].rows) :
           n \in {m \in CkptNums : batch_files[<<"indices", m>>].exists}}

\* C33: when a user interrupt has ended the batch loop, every embedding that
\* was in the in-memory buffer is in a checkpoint on disk.
C33_InterruptFlushesBuffer ==
    (phase = "aborted" /\ error = "KeyboardInterrupt")
        => Range(current_embedding_batch.indices) \subseteq CheckpointedItems


(***************************************************************************)
(* Properties of the local image path: checked under SpecPaths.            *)
(***************************************************************************)
\* the URL of a row: hdurl, or url when hdurl is missing
UrlOf(row) == IF row.hdurl.isna THEN row.url.str ELSE row.hdurl.str

\* the path the three scripts are to derive: the date and the extension of
\* the URL, ".jpg" when there is none or when it holds a query string
ExpectedPath(row) ==
    LET ext == splitext(UrlOf(row))[2]
    IN join_image_dir(row.date,
                      IF ext = <<>> \/ "?" \in Range(ext) THEN JPG ELSE ext)

\* C34: for every master-table row, download_all_images, check_image_path
\* and create_embedding_indices each derive the date plus the extension of
\* the row's URL as local image path (so that the file the downloader
\* stored is the file the validation looks for).
C34_SameLocalImagePath ==
    \A derived \in {downloaded, preloaded, indexed} :
        derived # NotDerived =>
            derived.kind = "path" /\ derived.path = ExpectedPath(path_row)


(***************************************************************************)
(* Properties of the evaluation pairing (SpecClip).                        *)
(***************************************************************************)
\* C35: in the evaluation, the ranked list paired with a ground-truth row of
\* an item that process_batch ranked is the list process_batch computed for
\* that item, whatever items were dropped by decode failures or failed
\* batches.
C35_PredictionsPairedWithOwnItem ==
    Len(predictions_for_metrics) = Len(merged_df) =>
        \A k \in 1..Len(merged_df) :
            merged_df[k].date \in Range(EmbeddedItems(results))
                => predictions_for_metrics[k] = Ranking(merged_df[k].date)


(***************************************************************************)
(* Properties of the interrupt handler of create_master_dataset            *)
(* (SpecMaster).                                                           *)
(***************************************************************************)
\* C36: wherever a KeyboardInterrupt arrives in a run of
\* create_master_dataset, each record fetched in the run is written to the
\* master file at most once.
C36_RecordWrittenAtMostOnce ==
    \A d \in Dates : Count(written, Row(d)) <= 1


(***************************************************************************)
(* Properties of the embedding buffer (SpecClip).                          *)
(***************************************************************************)
\* C37: in the batch loop the embedding buffer never holds more than
\* SAVE_EMBEDDINGS_EVERY + BATCH_SIZE - 1 records, the embeddings of the
\* batch just processed included; it holds fewer than SAVE_EMBEDDINGS_EVERY
\* records at the start of each batch; and it is empty right after each
\* flush of the loop.
C37_BufferBounded ==
    /\ [](BatchLen(current_embedding_batch)
              <= SAVE_EMBEDDINGS_EVERY + CLIP_BATCH_SIZE - 1)
    /\ [][phase = "streaming" =>
             BatchLen(current_embedding_batch)
                 + BatchLen(last_batch'.returned.embedding_batch)
                 <= SAVE_EMBEDDINGS_EVERY + CLIP_BATCH_SIZE - 1]_vars
    /\ [](phase = "streaming" =>
             BatchLen(current_embedding_batch) < SAVE_EMBEDDINGS_EVERY)
    /\ [][(phase = "streaming" /\ batch_counter' = batch_counter + 1) =>
             BatchLen(current_embedding_batch') = 0]_vars

\* the loop goes on after a flush of SAVE_EMBEDDINGS_EVERY + BATCH_SIZE - 1
\* records, the most the buffer can hold, and the buffer is empty
C37_Witness ==
    /\ phase = "streaming"
    /\ batch_counter = 1
    /\ Len(batch_files[<<"indices", 0>>].rows)
          = SAVE_EMBEDDINGS_EVERY + CLIP_BATCH_SIZE - 1
    /\ BatchLen(current_embedding_batch) = 0


(***************************************************************************)
(* Properties of a run over the checkpoints of an earlier run (SpecClip).  *)
(***************************************************************************)
\* a directory without the checkpoints numbered n and above
WithoutCheckpointsFrom(files, n) ==
    [f \in BatchFileNames |-> IF f[2] < n THEN files[f] ELSE NoNpy]

\* C38: whatever checkpoint files are on disk, a run enters its batch loop
\* with checkpoint counter 0 and an empty buffer, and its consolidation
\* leaves every checkpoint file numbered at or above the counter of the run
\* unchanged on disk and writes the unified arrays it would write if these
\* files were not there.
C38_HigherCheckpointsUntouched ==
    /\ [][phase = "labels" =>
             /\ batch_counter' = 0
             /\ BatchLen(current_embedding_batch') = 0]_vars
    /\ [][(phase = "consolidating" /\ phase' = "writing") =>
             /\ \A f \in BatchFileNames :
                   f[2] >= batch_counter => batch_files'[f] = batch_files[f]
             /\ final_files' =
                   consolidate_embedding_batches(
                       WithoutCheckpointsFrom(batch_files, batch_counter),
                       final_files, batch_counter).final]_vars

\* a run that wrote checkpoint 0 only has consolidated it while checkpoint 1
\* of an aborted earlier run was on disk: that checkpoint is still there and
\* its item is in no unified array
C38_Witness ==
    /\ phase = "done"
    /\ batch_counter = 1
    /\ batch_files = StaleBatchFiles
    /\ final_files["title_embeddings"].exists
    /\ \A t \in EmbTypes : Emb(t, 0) \notin Range(final_files[t].rows)


(***************************************************************************)
(* Properties of the metrics on empty inputs (SpecMetrics).                *)
(***************************************************************************)
\* C39: called with an empty predictions list and an empty ground_truth
\* list, calculate_top_n_accuracy, calculate_mrr and
\* calculate_precision_at_k raise ZeroDivisionError; a pipeline calls them
\* with the rows of a joined table that is not empty, and gets no
\* ZeroDivisionError.
C39_EmptyInputDividesByZero ==
    /\ (metric_called \in {"calculate_top_n_accuracy", "calculate_mrr",
                           "calculate_precision_at_k"}
        /\ arg_predictions = <<>> /\ arg_ground_truth = <<>>)
           => metric_result = ZeroDivisionError
    /\ (caller \in Pipelines /\ metric_called # "none")
           => /\ metric_result # ZeroDivisionError
              /\ (metric_called # "skipped") = (arg_ground_truth # <<>>)

\* calculate_mrr has been called with two empty lists, outside the pipelines
C39_Witness ==
    /\ metric_called = "calculate_mrr"
    /\ arg_predictions = <<>>
    /\ arg_ground_truth = <<>>
    /\ metric_result = ZeroDivisionError

====
